---- MODULE Spec2Model ----
(***************************************************************************)
(* A model of pymq: the transport-agnostic event bus (provider/base.py),   *)
(* its four adapters (provider/simple.py, redis.py, ipc.py, aws.py) and    *)
(* the RPC protocol (stub and skeleton) that runs on top of publish /      *)
(* subscribe and the named queues.                                         *)
(*                                                                         *)
(* One process is modelled.  It holds one bus instance; the application    *)
(* thread issues API calls (subscribe, expose, publish, stub calls), the   *)
(* dispatch thread runs the adapter's run() loop and the dispatcher's      *)
(* worker executes the submitted callbacks.                                *)
(***************************************************************************)
EXTENDS Integers, Sequences, FiniteSets, TLC

(***************************************************************************)
(* Bounds of the model.                                                    *)
(***************************************************************************)
\* Registry and publish operations (subscribe, unsubscribe, expose, unexpose,
\* publish, and those of pymq.core) the application issues in one behaviour.
MaxOps == 4

\* The reply queue names of the stub invocations of one behaviour; each
\* invocation draws a fresh one (uuid4), so invocations never share a queue.
CallIds == {1}

(***************************************************************************)
(* The finite universe the inputs are drawn from.                          *)
(***************************************************************************)
Adapters == {"simple", "redis", "ipc", "aws"}

\* exact channel names, and one glob pattern that matches "f" but not "g"
Channels == {"f", "g"}
Patterns == {"f*"}

\* Glob matching as the broker does it for the names above.
Matches(p, c) == p = "f*" /\ c = "f"

\* A registry key is (channel, is-pattern), as in _subscribers.
Keys == (Channels \X {FALSE}) \cup (Patterns \X {TRUE})

\* The exposable functions of tests/base/rpc.py.
Fns == {"void_function", "error_function", "simple_remote_function"}

\* plain subscriber callbacks
Listeners == {"L1", "L2"}

\* the callbacks among them that raise an exception whenever they are called
Raising == {"L2"}

\* positional argument lists a stub is called with, and whether the call also
\* carries the keyword argument param="k"
ArgLists == {<< >>, <<"x">>, <<"x", "y">>}

\* stub timeouts: None, 0 and a positive number of seconds
Timeouts == {"None", "0", "1"}

\* values published on plain channels
Values == {"e1"}

Min(a, b) == IF a < b THEN a ELSE b

(***************************************************************************)
(* Python values.  A value that crosses the RPC boundary is a record       *)
(*   [kind, cls, items]                                                    *)
(* kind = "value": the primitive items[1]; kind = "exception": an          *)
(* exception object of class cls with args items; kind = "args": the bare  *)
(* argument list an exception is serialized to; kind = "error": a          *)
(* RemoteInvocationError whose args are items.                             *)
(***************************************************************************)
PyValue(v) == [kind |-> "value", cls |-> "", items |-> <<v>>]
PyException(c, a) == [kind |-> "exception", cls |-> c, items |-> a]
PyNone == PyValue("None")

\* typing.fullname of a primitive value
fullname(v) ==
    IF v = "None" THEN "NoneType" ELSE "str"

\* typing.deep_from_dict for the primitive documents of the model: None and a
\* document that already has the target type pass through; another primitive
\* is converted by the target's constructor.
deep_from_dict(doc, cls) ==
    IF doc = "None" THEN doc
    ELSE IF fullname(doc) = cls THEN doc
    ELSE IF cls = "str" THEN doc
    ELSE "None"

(***************************************************************************)
(* The exposed functions: their parameter lists and bodies.                *)
(***************************************************************************)
\* inspect.getfullargspec(fn).args
SpecArgs(fn) == IF fn = "simple_remote_function" THEN <<"param">> ELSE << >>

Hello(p) == IF p = "x" THEN "Hello x!" ELSE IF p = "y" THEN "Hello y!" ELSE "Hello k!"

\* The body of fn run on the bound parameters.
Body(fn, bound) ==
    CASE fn = "void_function" -> [raised |-> FALSE, val |-> PyNone]
      [] fn = "error_function" ->
            [raised |-> TRUE, val |-> PyException("ValueError", <<"oh noes">>)]
      [] OTHER -> [raised |-> FALSE, val |-> PyValue(Hello(bound[1]))]

ArityError == [raised |-> TRUE, val |-> PyException("TypeError", <<"arity">>)]

\* fn(*args, **kwargs) as Python binds it: every parameter exactly once.
Apply(fn, args, kw) ==
    LET np == Len(SpecArgs(fn))
        nk == IF kw THEN 1 ELSE 0
    IN  IF Len(args) + nk # np THEN ArityError
        ELSE Body(fn, IF kw THEN <<"k">> ELSE args)

(***************************************************************************)
(* RPC envelopes and the skeleton side (provider/base.py).                 *)
(***************************************************************************)
RpcResponse(fn, result, result_type, error) ==
    [fn |-> fn, result |-> result, result_type |-> result_type, error |-> error]

\* DefaultSkeletonMethod._invoke: a function without parameters refuses
\* positional arguments; otherwise the first min(len(request.args),
\* len(spec.args)) positional arguments are passed on and the function is
\* called with them.  request.kwargs is not read.
skeleton_invoke(fn, rargs) ==
    IF SpecArgs(fn) = << >> /\ rargs # << >> THEN ArityError
    ELSE Apply(fn, SubSeq(rargs, 1, Min(Len(rargs), Len(SpecArgs(fn)))), FALSE)

\* DefaultSkeletonMethod.__call__ up to the response it hands to
\* _queue_response.
skeleton_response(fn, request) ==
    LET r == skeleton_invoke(fn, request.args)
    IN  IF r.raised
        THEN RpcResponse(request.fn, r.val, r.val.cls, TRUE)
        ELSE RpcResponse(request.fn, r.val, fullname(r.val.items[1]), FALSE)

\* What a response looks like after json.dumps(cls=DeepDictEncoder) and
\* json.loads(cls=DeepDictDecoder): primitives are unchanged, an exception
\* travels as its argument list (typing.deep_to_dict).
wire(response) ==
    IF response.result.kind = "exception"
    THEN [response EXCEPT !.result = [kind |-> "args", cls |-> "", items |-> @.items]]
    ELSE response

\* Whether the adapter's queues serialize their items.
Serializes(a) == a \in {"redis", "ipc", "aws"}

(***************************************************************************)
(* The stub side (provider/base.py).                                       *)
(***************************************************************************)
\* The synthetic response of a wait that raised Empty.
timeout_response(fn, timeout) ==
    RpcResponse(fn, [kind |-> "args", cls |-> "",
                     items |-> <<"Gave up waiting after", timeout>>],
                "TimeoutError", TRUE)

\* DefaultStubMethod._unmarshal
unmarshal(response, raise_error) ==
    IF response.error
    THEN [raised |-> raise_error,
          val |-> [kind |-> "error", cls |-> "RemoteInvocationError",
                   items |-> <<response.result_type>> \o response.result.items]]
    ELSE [raised |-> FALSE,
          val |-> PyValue(deep_from_dict(response.result.items[1],
                                         response.result_type))]

\* The outcome of a Python call: it returns vals or raises exc.
Returns(vals) == [kind |-> "return", exc |-> "", vals |-> vals]
Raises(exc, vals) == [kind |-> "raise", exc |-> exc, vals |-> vals]
Pending == [kind |-> "pending", exc |-> "", vals |-> << >>]

\* the call form without its except clause
StubCallNoCatch(rpc, multi) ==
    IF rpc.kind = "raise" THEN rpc
    ELSE Returns(<<PyNone>>)

\* DefaultStubMethod.__call__ applied to what rpc() did: rpc is the outcome of
\* rpc() (on return, the responses it returned).
stub_call(rpc, multi) ==
    IF rpc.kind = "raise"
    THEN IF rpc.exc = "NoSuchRemoteError"
         THEN Returns(IF multi THEN << >> ELSE <<PyNone>>)
         ELSE rpc
    ELSE IF multi
         THEN Returns([k \in 1..Len(rpc.vals) |-> unmarshal(rpc.vals[k], FALSE).val])
         ELSE LET u == unmarshal(rpc.vals[1], TRUE)
              IN  IF u.raised THEN Raises(u.val.cls, <<u.val>>)
                  ELSE Returns(<<u.val>>)

(***************************************************************************)
(* State.                                                                  *)
(***************************************************************************)
VARIABLES
    adapter,        \* the provider class the factory instantiated
    phase,          \* "created": run() has not started; "running"
    subscribers,    \* AbstractEventBus._subscribers: key -> list of callbacks
    remote_fns,     \* AbstractEventBus._remote_fns: channel -> skeleton
    ext,            \* the subscriptions the transport holds for this process
    subscriptions,  \* AwsEventBus._subscriptions
    loop,           \* messages the transport delivered, not yet dispatched
    tasks,          \* work submitted to the dispatcher, not yet run
    worker,         \* the put an IPC skeleton has decided on, not yet done
    queues,         \* the named queues that exist: reply queue id -> items
    call,           \* the stub invocation of the application thread
    err,            \* what the last API call raised ("" if it returned)
    ops,            \* API operations issued so far
    invocations,    \* the listener invocations so far, in order
    freed,          \* history: channels unexposed and not exposed again since
    expected,       \* history: per publish on a running bus, the callbacks
                    \* registered for the channel at that moment
    hist,           \* history: the registrations ever made through
                    \* subscribe, the publish calls made so far,
                    \* whether a subscribe or unsubscribe has raised,
                    \* and the calls made to pymq.core
    core,           \* the module state of pymq.core: _bus, _runner,
                    \* _listeners, _remote_fns
    clients,        \* the threads that use named queues, and the queue
                    \* objects SimpleEventBus.queues holds
    codec,          \* a value on its way through json.dumps and json.loads
    listen,         \* where RedisEventBus._listen stands, once run() has
                    \* reached it: waiting for a subscription, or inside
                    \* pubsub.listen(); and whether it has come back from
                    \* there
    caller          \* a second application thread inside pymq.publish or
                    \* pymq.queue, which take no lock: the call it is in,
                    \* whether it stands between the test of _bus and the
                    \* use of _bus, and how its last call ended

vars == <<adapter, phase, subscribers, remote_fns, ext, subscriptions, loop,
          tasks, worker, queues, call, err, ops, invocations, freed, expected,
          hist, core, clients, codec, listen, caller>>

\* callbacks: the skeleton wrapping fn for channel ch, or a plain listener
Skeleton(fn, ch) == [kind |-> "skeleton", fn |-> fn, ch |-> ch]
Listener(l) == [kind |-> "listener", fn |-> l, ch |-> ""]

\* events: an RpcRequest, or a plain value.  ch is the channel the event was
\* published on (a request's channel is its fn).
RpcRequest(fn, response_channel, args, kw) ==
    [kind |-> "request", fn |-> fn, response_channel |-> response_channel,
     args |-> args, kw |-> kw, v |-> "", ch |-> fn]
ValueEvent(v, c) ==
    [kind |-> "value", fn |-> "", response_channel |-> 0,
     args |-> << >>, kw |-> FALSE, v |-> v, ch |-> c]

\* dict helpers: d[k] = v added or replaced, and k removed
Put(d, k, v) == [x \in DOMAIN d \cup {k} |-> IF x = k THEN v ELSE d[x]]
Del(d, k) == [x \in DOMAIN d \ {k} |-> d[x]]
EmptyDict == [x \in {} |-> << >>]

\* list.remove(x): the first occurrence is removed
RECURSIVE Remove(_, _)
Remove(s, x) ==
    IF s = << >> THEN s
    ELSE IF Head(s) = x THEN Tail(s)
    ELSE <<Head(s)>> \o Remove(Tail(s), x)

InSeq(s, x) == \E k \in 1..Len(s) : s[k] = x

\* defaultdict(list).__getitem__ and dict.get
Bucket(subs, key) == IF key \in DOMAIN subs THEN subs[key] ELSE << >>

(***************************************************************************)
(* Python values as the codec sees them: [py, pyval], py the name of the   *)
(* value's class and pyval its content: a number, string or boolean, the   *)
(* sequence of the items of a list or tuple, the set of the elements of a  *)
(* set, the sequence of the (key, value) pairs of a dict, the sequence of  *)
(* the (attribute, value) pairs of an object's __dict__, or the sequence   *)
(* of the fields of a named tuple.                                         *)
(***************************************************************************)
PyNull == [py |-> "NoneType", pyval |-> 0]
PyInt(n) == [py |-> "int", pyval |-> n]
PyStr(x) == [py |-> "str", pyval |-> x]
PyBool(b) == [py |-> "bool", pyval |-> b]
PyList(items) == [py |-> "list", pyval |-> items]
PyTuple(items) == [py |-> "tuple", pyval |-> items]
PySet(elems) == [py |-> "set", pyval |-> elems]
PyDict(pairs) == [py |-> "dict", pyval |-> pairs]
PyObj(cls, pairs) == [py |-> cls, pyval |-> pairs]
PyRaised(exc) == [py |-> "Error", pyval |-> exc]

\* The classes of tests/test_queue.py and tests/test_typing.py: Payload is a
\* NamedTuple, the others are plain classes.
NamedTuples == {"Payload"}
Records == {"EventWithPayload", "SimpleNested", "ComplexNested", "ClassWithSet"}
Builtins == {"bool", "int", "str", "list", "tuple", "set", "dict"}

\* a type: a class, or a generic alias of typing with its arguments
Cls(n) == [g |-> n, args |-> << >>]
NoCls == Cls("")
ListOf(c) == [g |-> "List", args |-> <<c>>]
DictOf(k, v) == [g |-> "Dict", args |-> <<k, v>>]
SetOf(c) == [g |-> "Set", args |-> <<c>>]
TupleOf(cs) == [g |-> "Tuple", args |-> cs]
Generic(c) == c.g \in {"List", "Set", "Tuple", "Dict"}

\* typing.get_type_hints(cls), in the order of the class body
get_type_hints(n) ==
    CASE n = "Payload" -> <<<<"name", Cls("str")>>, <<"value", Cls("int")>>>>
      [] n = "EventWithPayload" -> <<<<"payload", Cls("Payload")>>>>
      [] n = "SimpleNested" -> <<<<"name", Cls("str")>>, <<"value", Cls("int")>>>>
      [] n = "ComplexNested" ->
            <<<<"nested_list", ListOf(Cls("SimpleNested"))>>,
              <<"nested_tuple", TupleOf(<<Cls("int"), Cls("SimpleNested")>>)>>>>
      [] n = "ClassWithSet" -> <<<<"simple_set", SetOf(Cls("str"))>>>>
      [] OTHER -> << >>

\* how the constructor of a plain class takes its attributes: "optional"
\* (keyword arguments defaulting to None), "required", or "none" (no
\* arguments; attributes are set afterwards)
Constructor(n) ==
    CASE n = "SimpleNested" -> "optional"
      [] n \in {"EventWithPayload", "ClassWithSet"} -> "required"
      [] OTHER -> "none"

Primitive(v) == v.py \in {"bool", "int", "float", "str", "bytes"}
IsTuple(v) == v.py = "tuple" \/ v.py \in NamedTuples
Raised(v) == v.py = "Error"
AnyRaised(xs) == \E i \in DOMAIN xs : Raised(xs[i])
FirstRaised(xs) == xs[CHOOSE i \in DOMAIN xs : Raised(xs[i]) /\ \A j \in 1..(i - 1) : ~Raised(xs[j])]

\* typing.fullname(o) of a value: builtins go without their module
type_name(o) == o.py

\* typing.load_class(name): pydoc.locate, None for a name it cannot resolve
load_class(n) == IF n \in Builtins \cup Records \cup NamedTuples THEN Cls(n) ELSE NoCls

\* typing.deep_to_dict(obj)
RECURSIVE deep_to_dict(_)
deep_to_dict(obj) ==
    CASE obj.py = "NoneType" -> obj
      [] Primitive(obj) -> obj
      [] IsTuple(obj) ->
            LET xs == [i \in DOMAIN obj.pyval |-> deep_to_dict(obj.pyval[i])]
            IN  IF AnyRaised(xs) THEN FirstRaised(xs) ELSE PyTuple(xs)
      [] obj.py = "list" ->
            LET xs == [i \in DOMAIN obj.pyval |-> deep_to_dict(obj.pyval[i])]
            IN  IF AnyRaised(xs) THEN FirstRaised(xs) ELSE PyList(xs)
      [] obj.py = "dict" ->
            LET xs == [i \in DOMAIN obj.pyval |-> deep_to_dict(obj.pyval[i][2])]
            IN  IF AnyRaised(xs) THEN FirstRaised(xs)
                ELSE PyDict([i \in DOMAIN obj.pyval |-> <<obj.pyval[i][1], xs[i]>>])
      [] obj.py = "set" -> PySet({deep_to_dict(a) : a \in obj.pyval})
      [] obj.py \in Records -> deep_to_dict(PyDict(obj.pyval))
      [] OTHER -> PyRaised("TypeError")

\* JSON text, as the tree it denotes: [js, tree] with js one of "null",
\* "bool", "num", "str", "array" (tree: the elements), "object" (tree: the
\* (name, tree) pairs in order); js = "TypeError" stands for the exception
\* the encoder raises instead of returning text.
JsonRaised == [js |-> "TypeError", tree |-> 0]

\* the name json gives a dict key; keys that are neither str, int, float,
\* bool nor None are refused
json_key(k) ==
    CASE k.py = "str" -> k.pyval
      [] k.py = "int" -> ToString(k.pyval)
      [] k.py = "bool" -> IF k.pyval THEN "true" ELSE "false"
      [] k.py = "NoneType" -> "null"
      [] OTHER -> ""

\* json.JSONEncoder.encode(o) without a default(): tuples (named ones too) are
\* written as arrays, sets and objects of other classes raise TypeError
RECURSIVE json_encode(_)
json_encode(o) ==
    CASE o.py = "NoneType" -> [js |-> "null", tree |-> 0]
      [] o.py = "bool" -> [js |-> "bool", tree |-> o.pyval]
      [] o.py = "int" -> [js |-> "num", tree |-> o.pyval]
      [] o.py = "str" -> [js |-> "str", tree |-> o.pyval]
      [] o.py = "list" \/ IsTuple(o) ->
            LET xs == [i \in DOMAIN o.pyval |-> json_encode(o.pyval[i])]
            IN  IF \E i \in DOMAIN xs : xs[i].js = "TypeError" THEN JsonRaised
                ELSE [js |-> "array", tree |-> xs]
      [] o.py = "dict" ->
            LET xs == [i \in DOMAIN o.pyval |-> json_encode(o.pyval[i][2])]
            IN  IF \/ \E i \in DOMAIN xs : xs[i].js = "TypeError"
                   \/ \E i \in DOMAIN xs :
                        o.pyval[i][1].py \notin {"str", "int", "bool", "NoneType"}
                THEN JsonRaised
                ELSE [js |-> "object",
                      tree |-> [i \in DOMAIN xs |-> <<json_key(o.pyval[i][1]), xs[i]>>]]
      [] OTHER -> JsonRaised

\* json.JSONDecoder.decode(s): arrays become lists, objects dicts with str keys
RECURSIVE json_decode(_)
json_decode(t) ==
    CASE t.js = "null" -> PyNull
      [] t.js = "bool" -> PyBool(t.tree)
      [] t.js = "num" -> PyInt(t.tree)
      [] t.js = "str" -> PyStr(t.tree)
      [] t.js = "array" -> PyList([i \in DOMAIN t.tree |-> json_decode(t.tree[i])])
      [] OTHER -> PyDict([i \in DOMAIN t.tree |->
                            <<PyStr(t.tree[i][1]), json_decode(t.tree[i][2])>>])

\* DeepDictEncoder.encode(obj)
encode(obj) ==
    LET tag(kind, doc, name) ==
            PyDict(<<<<PyStr(kind), doc>>, <<PyStr("__type"), PyStr(name)>>>>)
    IN  IF obj.py \in {"bool", "int", "float", "str", "bytes", "dict"}
        THEN json_encode(obj)
        ELSE IF obj.py = "list"
        THEN IF obj.pyval = << >> \/ Primitive(obj.pyval[1])
             THEN json_encode(obj)
             ELSE json_encode(tag("__list", deep_to_dict(obj), type_name(obj.pyval[1])))
        ELSE LET doc == deep_to_dict(obj)
             IN  IF doc.py = "dict"
                 THEN json_encode(PyDict(Append(doc.pyval,
                            <<PyStr("__type"), PyStr(type_name(obj))>>)))
                 ELSE json_encode(tag("__obj", doc, type_name(obj)))

\* dict lookups on a document
HasKey(doc, k) == doc.py = "dict" /\ \E i \in DOMAIN doc.pyval : doc.pyval[i][1] = PyStr(k)
GetKey(doc, k) == doc.pyval[CHOOSE i \in DOMAIN doc.pyval : doc.pyval[i][1] = PyStr(k)][2]
DelKey(doc, k) ==
    LET keep(pair) == pair[1] # PyStr(k) IN PyDict(SelectSeq(doc.pyval, keep))

\* cls(doc) for a primitive doc of another class
convert(doc, n) ==
    CASE n = "str" /\ doc.py = "int" -> PyStr(ToString(doc.pyval))
      [] n = "int" /\ doc.py = "str" /\ doc.pyval \in {"1", "2"} ->
            PyInt(IF doc.pyval = "1" THEN 1 ELSE 2)
      [] n = "int" /\ doc.py = "bool" -> PyInt(IF doc.pyval THEN 1 ELSE 0)
      [] n = "bool" /\ doc.py = "int" -> PyBool(doc.pyval # 0)
      [] n = "bool" /\ doc.py = "str" -> PyBool(doc.pyval # "")
      [] n = "int" /\ doc.py = "str" -> PyRaised("ValueError")
      [] OTHER -> PyRaised("TypeError")

\* typing.new_instance(cls, data): the attributes named like constructor
\* arguments go through the constructor, the others are set afterwards
new_instance(n, data) ==
    LET hints == get_type_hints(n)
        given(name) == \E i \in DOMAIN data : data[i][1] = name
        value(name) == data[CHOOSE i \in DOMAIN data : data[i][1] = name][2]
    IN  CASE n \in NamedTuples ->
                IF \A i \in DOMAIN hints : given(hints[i][1])
                THEN PyObj(n, [i \in DOMAIN hints |-> value(hints[i][1])])
                ELSE PyRaised("TypeError")
          [] n \in Records /\ Constructor(n) = "optional" ->
                PyObj(n, [i \in DOMAIN hints |->
                            <<PyStr(hints[i][1]),
                              IF given(hints[i][1]) THEN value(hints[i][1]) ELSE PyNull>>])
          [] n \in Records /\ Constructor(n) = "required" ->
                IF \A i \in DOMAIN hints : given(hints[i][1])
                THEN PyObj(n, [i \in DOMAIN hints |->
                                <<PyStr(hints[i][1]), value(hints[i][1])>>])
                ELSE PyRaised("TypeError")
          [] n \in Records ->
                PyObj(n, [i \in DOMAIN data |-> <<PyStr(data[i][1]), data[i][2]>>])
          [] n = "list" -> PyList(<< >>)
          [] n = "tuple" -> PyTuple(<< >>)
          [] n = "set" -> PySet({})
          [] n = "dict" -> PyDict(<< >>)
          [] n = "str" -> PyStr("")
          [] n = "int" -> PyInt(0)
          [] n = "bool" -> PyBool(FALSE)
          [] OTHER -> PyRaised("TypeError")

\* typing.deep_from_dict(doc, cls) for documents of any shape
RECURSIVE from_dict(_, _)
from_dict(doc, cls) ==
    IF doc.py = "NoneType" THEN doc
    ELSE IF ~Generic(cls) /\ doc.py = cls.g THEN doc
    ELSE IF cls.g = "Any" THEN doc
    ELSE IF Generic(cls) THEN
        CASE cls.g = "List" /\ doc.py \in {"list", "tuple"} ->
                LET xs == [i \in DOMAIN doc.pyval |-> from_dict(doc.pyval[i], cls.args[1])]
                IN  IF AnyRaised(xs) THEN FirstRaised(xs) ELSE PyList(xs)
          [] cls.g = "Set" /\ doc.py \in {"list", "tuple"} ->
                PySet({from_dict(doc.pyval[i], cls.args[1]) : i \in DOMAIN doc.pyval})
          [] cls.g = "Tuple" /\ doc.py \in {"list", "tuple"} ->
                IF Len(doc.pyval) > Len(cls.args) THEN PyRaised("IndexError")
                ELSE LET xs == [i \in DOMAIN doc.pyval |->
                                    from_dict(doc.pyval[i], cls.args[i])]
                     IN  IF AnyRaised(xs) THEN FirstRaised(xs) ELSE PyTuple(xs)
          [] cls.g = "Dict" /\ doc.py = "dict" ->
                LET ks == [i \in DOMAIN doc.pyval |-> from_dict(doc.pyval[i][1], cls.args[1])]
                    vs == [i \in DOMAIN doc.pyval |-> from_dict(doc.pyval[i][2], cls.args[2])]
                IN  IF AnyRaised(ks) THEN FirstRaised(ks)
                    ELSE IF AnyRaised(vs) THEN FirstRaised(vs)
                    ELSE PyDict([i \in DOMAIN doc.pyval |-> <<ks[i], vs[i]>>])
          [] OTHER -> PyRaised("TypeError")
    ELSE IF Primitive(doc) THEN convert(doc, cls.g)
    ELSE IF doc.py = "list" /\ cls.g = "tuple" THEN PyTuple(doc.pyval)
    ELSE IF doc.py = "list" /\ cls.g = "set" THEN PySet({doc.pyval[i] : i \in DOMAIN doc.pyval})
    ELSE
        LET hints == get_type_hints(cls.g)
        IN  IF doc.py \in {"list", "tuple"}
            THEN IF Len(doc.pyval) < Len(hints) THEN PyRaised("IndexError")
                 ELSE LET xs == [i \in DOMAIN hints |->
                                    from_dict(doc.pyval[i], hints[i][2])]
                      IN  IF AnyRaised(xs) THEN FirstRaised(xs)
                          ELSE new_instance(cls.g,
                                    [i \in DOMAIN hints |-> <<hints[i][1], xs[i]>>])
            ELSE LET in_doc(h) == HasKey(doc, h[1])
                     found == SelectSeq(hints, in_doc)
                     xs == [i \in DOMAIN found |->
                                from_dict(GetKey(doc, found[i][1]), found[i][2])]
                 IN  IF AnyRaised(xs) THEN FirstRaised(xs)
                     ELSE new_instance(cls.g,
                                [i \in DOMAIN found |-> <<found[i][1], xs[i]>>])

\* DeepDictDecoder.decode(s) with target_class cls (NoCls: none)
decode(t, cls) ==
    LET doc == json_decode(t)
        named == IF cls = NoCls /\ HasKey(doc, "__type")
                 THEN load_class(GetKey(doc, "__type").pyval)
                 ELSE cls
        target == IF cls = NoCls /\ HasKey(doc, "__list") THEN ListOf(named) ELSE named
        untagged == IF HasKey(doc, "__type") THEN DelKey(doc, "__type") ELSE doc
        inner == IF HasKey(untagged, "__obj") THEN GetKey(untagged, "__obj")
                 ELSE IF HasKey(untagged, "__list") THEN GetKey(untagged, "__list")
                 ELSE untagged
    IN  IF doc.py \notin {"dict", "list"}
        THEN IF cls = NoCls THEN doc ELSE from_dict(doc, cls)
        ELSE IF target # NoCls THEN from_dict(inner, target) ELSE inner

\* The values that are sent: primitives, lists, tuples, sets, dicts, a named
\* tuple, objects, and combinations of them.
Simple1 == PyObj("SimpleNested", <<<<PyStr("name"), PyStr("a")>>,
                                   <<PyStr("value"), PyInt(1)>>>>)
Payload1 == PyObj("Payload", <<PyStr("foo"), PyInt(42)>>)
Complex1 == PyObj("ComplexNested",
                  <<<<PyStr("nested_list"), PyList(<<Simple1>>)>>,
                    <<PyStr("nested_tuple"), PyTuple(<<PyInt(1), Simple1>>)>>>>)
Plain ==
    {PyInt(1), PyStr("a"), PyBool(TRUE), PyNull,
     PyList(<< >>), PyList(<<PyInt(1), PyInt(2)>>), PyList(<<PyStr("a")>>),
     PyList(<<PyList(<<PyInt(1)>>)>>),
     PyTuple(<<PyInt(1), PyStr("a")>>), PyTuple(<< >>),
     PyDict(<<<<PyStr("a"), PyInt(1)>>>>),
     PyDict(<<<<PyStr("a"), PyList(<<PyInt(1)>>)>>>>),
     Payload1, PyObj("EventWithPayload", <<<<PyStr("payload"), Payload1>>>>),
     Simple1, Complex1}
Tagged ==
    {PyList(<<PyTuple(<<PyInt(1), PyStr("a")>>)>>), PyList(<<Simple1>>)}
Mixed ==
    {PyList(<<PyInt(1), PyTuple(<<PyInt(1), PyInt(2)>>)>>),
     PyTuple(<<Simple1>>),
     PyDict(<<<<PyInt(1), PyStr("a")>>>>),
     PyDict(<<<<PyStr("a"), PyTuple(<<PyInt(1), PyInt(2)>>)>>>>),
     PyDict(<<<<PyStr("a"), Simple1>>>>)}
WithSets ==
    {PySet({PyInt(1), PyInt(2)}), PySet({}),
     PyDict(<<<<PyStr("a"), PySet({PyInt(1)})>>>>),
     PyObj("ClassWithSet", <<<<PyStr("simple_set"), PySet({PyStr("foo"), PyStr("bar")})>>>>)}
CodecValues == Plain \cup Tagged \cup Mixed \cup WithSets

\* the type a receiver that knows what it expects would declare for a value
Declared(v) ==
    CASE v = PyList(<<PyTuple(<<PyInt(1), PyStr("a")>>)>>) ->
            ListOf(TupleOf(<<Cls("int"), Cls("str")>>))
      [] v = PyList(<<Simple1>>) -> ListOf(Cls("SimpleNested"))
      [] v = PyTuple(<<Simple1>>) -> TupleOf(<<Cls("SimpleNested")>>)
      [] v = PyDict(<<<<PyInt(1), PyStr("a")>>>>) -> DictOf(Cls("int"), Cls("str"))
      [] v = PyDict(<<<<PyStr("a"), Simple1>>>>) -> DictOf(Cls("str"), Cls("SimpleNested"))
      [] OTHER -> Cls(v.py)

\* how the receiver decodes: into type(v), without a target class (as the
\* queues and the reply path do), or into the declared type
Modes == {"typeof", "untyped", "declared"}
Target(mode, v) ==
    CASE mode = "typeof" -> Cls(v.py)
      [] mode = "untyped" -> NoCls
      [] OTHER -> Declared(v)

\* no value is being converted
NoCodec == [pc |-> "idle", v |-> PyNull, s |-> [js |-> "null", tree |-> 0],
            mode |-> "", out |-> PyNull]

\* the names of the queues the application uses
QueueNames == {"q1", "q2"}

\* the threads that put into and get from the queues
Threads == {"T1", "T2"}

\* A queue is identified by its name and, on the simple bus, by the number of
\* the PythonQueue object (0 where the name alone identifies the queue at the
\* broker).  A thread holds at most one handle h.
NoHandle == <<"", 0>>

\* Nobody has asked for a queue yet.
\*   reg:   SimpleEventBus.queues, name -> queue object
\*   made:  PythonQueue objects created so far
\*   th:    per thread: pc "idle", "opening" (queue(name) found the name
\*          absent), "stored" (it has stored its new object), "waiting" (in a
\*          blocking get on an empty queue); the name queue() was called
\*          with; the handle h; the timeout of the get it waits in
NoClients ==
    [reg |-> EmptyDict, made |-> 0,
     th |-> [t \in Threads |-> [pc |-> "idle", name |-> "", h |-> NoHandle,
                                timeout |-> "None"]]]

\* pymq.core before init(): no bus, no runner thread, nothing registered.
\*   bus, runner:  _bus and _runner are set
\*   thread:       what the runner thread is doing: "none", "started" (run()
\*                 not yet entered), "running" (entered run() of the bound
\*                 bus), "foreign" (belongs to a bus that was replaced)
\*   pc:           "joining" while shutdown() waits in _runner.join()
\*   told:         close() was called on the bound bus
Unbound ==
    [bus |-> FALSE, runner |-> FALSE, thread |-> "none", pc |-> "idle",
     told |-> FALSE, listeners |-> EmptyDict, remote_fns |-> EmptyDict]

IdleCall ==
    [pc |-> "idle", id |-> 0, ch |-> "", args |-> << >>, kw |-> FALSE,
     multi |-> FALSE, timeout |-> "None", none |-> FALSE, n |-> 0,
     results |-> << >>, from |-> << >>, acquired |-> FALSE,
     rpc |-> Pending, fn0 |-> "", solo0 |-> FALSE]

Init ==
    /\ adapter \in Adapters
    /\ phase = "created"
    /\ subscribers = EmptyDict
    /\ remote_fns = EmptyDict
    /\ ext = {}
    /\ subscriptions = << >>
    /\ loop = << >>
    /\ tasks = << >>
    /\ worker = << >>
    /\ queues = EmptyDict
    /\ call = IdleCall
    /\ err = ""
    /\ ops = 0
    /\ invocations = << >>
    /\ freed = {}
    /\ expected = << >>
    /\ hist = [ever |-> {}, pubs |-> << >>, raised |-> FALSE, calls |-> << >>,
               puts |-> [n \in QueueNames |-> << >>],
               gets |-> [n \in QueueNames |-> << >>]]
    /\ core = Unbound
    /\ clients = NoClients
    /\ codec = NoCodec
    /\ listen = [pc |-> "waiting", idled |-> FALSE]
    /\ caller = [pc |-> "idle", op |-> "", out |-> ""]

(***************************************************************************)
(* The adapters' hooks.                                                    *)
(***************************************************************************)
\* worker threads of the dispatcher
DefaultWorkers == 1
AwsWorkers == 4
\* a dispatcher with several worker threads on every adapter
WorkersEverywhere(a) == AwsWorkers
Workers(a) == IF a = "aws" THEN AwsWorkers ELSE DefaultWorkers

\* _subscribe(callback, channel, pattern), called by subscribe() after the
\* registry was updated.
\*   simple: pass.
\*   redis:  nothing while there is no pubsub object; else SUBSCRIBE or
\*           PSUBSCRIBE unless already subscribed.
\*   ipc:    patterns raise; else the routing table links the channel to the
\*           event loop queue of this process.
\*   aws:    patterns raise; self._event_queue.arn raises while run() has not
\*           created the event queue; else SNS subscribes the queue and the
\*           subscription is recorded.
adapter_subscribe(cb, key) ==
    CASE adapter = "simple" ->
            /\ err' = ""
            /\ UNCHANGED <<ext, subscriptions>>
      [] adapter = "redis" ->
            /\ err' = ""
            /\ ext' = IF phase = "created" THEN ext ELSE ext \cup {key}
            /\ UNCHANGED subscriptions
      [] adapter = "ipc" ->
            IF key[2]
            THEN err' = "NotImplementedError" /\ UNCHANGED <<ext, subscriptions>>
            ELSE err' = "" /\ ext' = ext \cup {key} /\ UNCHANGED subscriptions
      [] OTHER ->
            IF key[2]
            THEN err' = "NotImplementedError" /\ UNCHANGED <<ext, subscriptions>>
            ELSE IF phase = "created"
            THEN err' = "AttributeError" /\ UNCHANGED <<ext, subscriptions>>
            ELSE /\ err' = ""
                 /\ ext' = ext \cup {key}
                 /\ subscriptions' = Append(subscriptions, [key |-> key, callback |-> cb])

\* _unsubscribe(callback, channel, pattern), called by unsubscribe() after the
\* registry was updated (subs is the registry after the update).
\*   redis: nothing while there is no pubsub object or while the bucket still
\*          exists; else UNSUBSCRIBE / PUNSUBSCRIBE.
\*   ipc:   patterns raise; else the routing table unlinks the channel.
\*   aws:   patterns raise; else every recorded subscription of this callback
\*          on the channel is unsubscribed at SNS and dropped.
adapter_unsubscribe(cb, key, subs) ==
    CASE adapter = "simple" ->
            /\ err' = ""
            /\ UNCHANGED <<ext, subscriptions>>
      [] adapter = "redis" ->
            /\ err' = ""
            /\ ext' = IF phase = "created" \/ key \in DOMAIN subs
                      THEN ext ELSE ext \ {key}
            /\ UNCHANGED subscriptions
      [] adapter = "ipc" ->
            IF key[2]
            THEN err' = "NotImplementedError" /\ UNCHANGED <<ext, subscriptions>>
            ELSE err' = "" /\ ext' = ext \ {key} /\ UNCHANGED subscriptions
      [] OTHER ->
            IF key[2]
            THEN err' = "NotImplementedError" /\ UNCHANGED <<ext, subscriptions>>
            ELSE LET mine(s) == s.key = key /\ s.callback = cb
                     keep(s) == ~mine(s)
                 IN  /\ err' = ""
                     /\ subscriptions' = SelectSeq(subscriptions, keep)
                     /\ ext' = IF SelectSeq(subscriptions, mine) # << >>
                               THEN ext \ {key} ELSE ext

\* AbstractEventBus.subscribe
subscribe(cb, key) ==
    /\ subscribers' = Put(subscribers, key, Append(Bucket(subscribers, key), cb))
    /\ adapter_subscribe(cb, key)

\* an unsubscribe that leaves the registry as it is
unsubscribe_keeps(cb, key) ==
    /\ UNCHANGED subscribers
    /\ adapter_unsubscribe(cb, key, subscribers)

\* AbstractEventBus.unsubscribe: list.remove raises ValueError when the bucket
\* is not empty and does not hold the callback.
unsubscribe(cb, key) ==
    LET callbacks == Bucket(subscribers, key)
        left == Remove(callbacks, cb)
        subs == IF callbacks = << >> THEN subscribers
                ELSE IF left = << >> THEN Del(subscribers, key)
                ELSE Put(subscribers, key, left)
    IN  IF callbacks # << >> /\ ~InSeq(callbacks, cb)
        THEN /\ err' = "ValueError"
             /\ UNCHANGED <<subscribers, ext, subscriptions>>
        ELSE /\ subscribers' = subs
             /\ adapter_unsubscribe(cb, key, subs)

\* Which external subscription receives a message published on channel c.
Receives(key, c) == IF key[2] THEN Matches(key[1], c) ELSE key[1] = c

KeyOrder == <<<<"f", FALSE>>, <<"g", FALSE>>, <<"f*", TRUE>>>>

\* a transport that hands a message to every external subscription
DeliveriesToAll(event, c) ==
    LET hit(k) == k \in ext
        keys == SelectSeq(KeyOrder, hit)
    IN  [i \in 1..Len(keys) |-> [key |-> keys[i], event |-> event]]

\* The messages the transport hands to this process for a publish on c: one
\* per external subscription that receives c.
Deliveries(event, c) ==
    LET hit(k) == k \in ext /\ Receives(k, c)
        keys == SelectSeq(KeyOrder, hit)
    IN  [i \in 1..Len(keys) |-> [key |-> keys[i], event |-> event]]

\* What _publish(event, channel) returns.
\*   simple: the number of callbacks in the exact bucket, counted before each
\*           submit.
\*   redis:  PUBLISH's reply, the number of subscriptions that received it.
\*   ipc:    the number of linked event loop queues that exist (this process's
\*           exists once run() has opened it).
\*   aws:    None (see publish_none).
publish_count(c) ==
    CASE adapter = "simple" -> Len(Bucket(subscribers, <<c, FALSE>>))
      [] adapter = "redis" -> Len(Deliveries(ValueEvent("", c), c))
      [] adapter = "ipc" -> IF <<c, FALSE>> \in ext /\ phase = "running" THEN 1 ELSE 0
      [] OTHER -> 0

publish_none == adapter = "aws"

\* the value publish(event, c) returns: << >> for None, else <<count>>
publish_returns(c) == IF publish_none THEN << >> ELSE <<publish_count(c)>>

\* The state change of _publish(event, channel).
\*   simple: reading self._subscribers[key] creates the bucket; each callback
\*           is submitted to the dispatcher, which fails (and is logged) while
\*           run() has not created it.
\*   others: the transport queues the message for the dispatch loop.
publish(event, c) ==
    IF adapter = "simple"
    THEN LET bucket == Bucket(subscribers, <<c, FALSE>>)
         IN  /\ subscribers' = Put(subscribers, <<c, FALSE>>, bucket)
             /\ tasks' = IF phase = "running"
                         THEN tasks \o [i \in 1..Len(bucket) |->
                                          [cb |-> bucket[i], event |-> event]]
                         ELSE tasks
             /\ UNCHANGED loop
    ELSE /\ loop' = IF adapter = "ipc" /\ phase # "running" THEN loop
                    ELSE loop \o Deliveries(event, c)
         /\ UNCHANGED <<subscribers, tasks>>

(***************************************************************************)
(* The bus API.                                                            *)
(***************************************************************************)
\* run(): the dispatcher and the transport's receiving end come into being;
\* redis subscribes the buckets registered so far (_init_subscriptions).
Run ==
    /\ phase = "created"
    /\ phase' = "running"
    /\ ext' = IF adapter = "redis" THEN ext \cup DOMAIN subscribers ELSE ext
    /\ UNCHANGED <<caller, listen, codec, clients, adapter, subscribers, remote_fns, subscriptions, loop, tasks,
                   worker, queues, call, err, ops, invocations, freed, expected,
                   hist, core>>

Subscribe(l, key) ==
    /\ ops < MaxOps
    /\ ops' = ops + 1
    /\ subscribe(Listener(l), key)
    /\ hist' = [hist EXCEPT !.ever = @ \cup {<<l, key>>},
                             !.raised = @ \/ err' # ""]
    /\ UNCHANGED <<caller, listen, codec, clients, adapter, phase, remote_fns, loop, tasks, worker, queues, call,
                   invocations, freed, expected, core>>

Unsubscribe(l, key) ==
    /\ ops < MaxOps
    /\ ops' = ops + 1
    /\ unsubscribe(Listener(l), key)
    /\ hist' = [hist EXCEPT !.raised = @ \/ err' # ""]
    /\ UNCHANGED <<caller, listen, codec, clients, adapter, phase, remote_fns, loop, tasks, worker, queues, call,
                   invocations, freed, expected, core>>

\* The listeners registered for channel c: those of the exact bucket, then
\* those of every pattern bucket whose pattern matches c, each paired with v.
Registered(c, v) ==
    LET exact == Bucket(subscribers, <<c, FALSE>>)
        keys == SelectSeq(KeyOrder, LAMBDA k : k[2] /\ Matches(k[1], c))
        RECURSIVE flat(_)
        flat(ks) == IF ks = << >> THEN << >>
                    ELSE Bucket(subscribers, Head(ks)) \o flat(Tail(ks))
        cbs == exact \o flat(keys)
    IN  [i \in 1..Len(cbs) |-> [fn |-> cbs[i].fn, v |-> v]]

\* publish(event, channel) of the application
Publish(v, c) ==
    /\ ops < MaxOps
    /\ ops' = ops + 1
    /\ publish(ValueEvent(v, c), c)
    /\ err' = ""
    /\ expected' = IF phase = "running"
                   THEN expected \o Registered(c, v)
                   ELSE expected
    /\ hist' = [hist EXCEPT !.pubs = Append(@, [v |-> v, ch |-> c, op |-> ops',
                                                 on |-> phase,
                                                 ret |-> publish_returns(c)])]
    /\ UNCHANGED <<caller, listen, codec, clients, adapter, phase, remote_fns, ext, subscriptions, worker, queues,
                   call, invocations, freed, core>>

\* get_remote_name(fn): module and qualified name of fn; the function's symbol
\* stands for it.
get_remote_name(fn) == fn

\* The channel expose(fn, channel) works on: the one given, or the derived one.
expose_channel(fn, channel) ==
    IF channel = "None" THEN get_remote_name(fn) ELSE channel

\* expose without the check for an exposed channel
ExposeUnchecked(fn, channel) ==
    LET c == expose_channel(fn, channel)
    IN  /\ ops < MaxOps
        /\ ops' = ops + 1
        /\ remote_fns' = Put(remote_fns, c, Skeleton(fn, c))
        /\ subscribe(Skeleton(fn, c), <<c, FALSE>>)
        /\ freed' = freed \ {c}
        /\ UNCHANGED <<caller, listen, codec, clients, adapter, phase, loop, tasks, worker, queues, call,
                       invocations, expected,
                   hist, core>>

\* an expose that enters the function in the map only after the subscribe
\* has returned
ExposeSubscribesFirst(fn, channel) ==
    LET c == expose_channel(fn, channel)
    IN  /\ ops < MaxOps
        /\ ops' = ops + 1
        /\ IF c \in DOMAIN remote_fns
           THEN /\ err' = "ValueError"
                /\ UNCHANGED <<subscribers, remote_fns, ext, subscriptions, freed>>
           ELSE /\ subscribe(Skeleton(fn, c), <<c, FALSE>>)
                /\ remote_fns' = IF err' = "" THEN Put(remote_fns, c, Skeleton(fn, c))
                                 ELSE remote_fns
                /\ freed' = freed \ {c}
        /\ UNCHANGED <<caller, listen, codec, clients, adapter, phase, loop, tasks, worker, queues, call,
                       invocations, expected,
                   hist, core>>

\* expose(fn, channel): the channel is checked before anything is changed.
Expose(fn, channel) ==
    LET c == expose_channel(fn, channel)
    IN  /\ ops < MaxOps
        /\ ops' = ops + 1
        /\ IF c \in DOMAIN remote_fns
           THEN /\ err' = "ValueError"
                /\ UNCHANGED <<subscribers, remote_fns, ext, subscriptions, freed>>
           ELSE /\ remote_fns' = Put(remote_fns, c, Skeleton(fn, c))
                /\ subscribe(Skeleton(fn, c), <<c, FALSE>>)
                /\ freed' = freed \ {c}
        /\ UNCHANGED <<caller, listen, codec, clients, adapter, phase, loop, tasks, worker, queues, call,
                       invocations, expected,
                   hist, core>>

\* unexpose(channel): removes the skeleton's subscription and frees the name.
Unexpose(c) ==
    /\ ops < MaxOps
    /\ c \in DOMAIN remote_fns
    /\ ops' = ops + 1
    /\ unsubscribe(remote_fns[c], <<c, FALSE>>)
    /\ remote_fns' = Del(remote_fns, c)
    /\ freed' = freed \cup {c}
    /\ UNCHANGED <<caller, listen, codec, clients, adapter, phase, loop, tasks, worker, queues, call, invocations,
                   expected,
                   hist, core>>

(***************************************************************************)
(* A stub invocation, step by step (DefaultStubMethod._invoke).            *)
(***************************************************************************)
\* Whether a blocking get on an empty reply queue can end with Empty.  No
\* timeout blocks; redis hands the timeout to BRPOP, where 0 blocks too.
CanTimeout(a, timeout) ==
    /\ timeout # "None"
    /\ ~(a = "redis" /\ timeout = "0")

\* the request is published; no remote answers with NoSuchRemoteError, a
\* missing count with RuntimeError, both before a reply queue is acquired.
StubPublish(c, args, kw, multi, timeout) ==
    /\ call.id + 1 \in CallIds
    /\ call.pc \in {"idle", "done"}
    /\ LET id == call.id + 1
           n == publish_count(c)
           bucket == Bucket(subscribers, <<c, FALSE>>)
       IN  /\ publish(RpcRequest(c, id, args, kw), c)
           /\ call' = [pc |-> IF publish_none \/ n = 0 THEN "done" ELSE "acquire",
                       id |-> id, ch |-> c, args |-> args, kw |-> kw,
                       multi |-> multi, timeout |-> timeout,
                       none |-> publish_none, n |-> n,
                       results |-> << >>, from |-> << >>, acquired |-> FALSE,
                       rpc |-> IF publish_none THEN Raises("RuntimeError", << >>)
                               ELSE IF n = 0 THEN Raises("NoSuchRemoteError", << >>)
                               ELSE Pending,
                       fn0 |-> IF c \in DOMAIN remote_fns THEN remote_fns[c].fn ELSE "",
                       solo0 |-> /\ c \in DOMAIN remote_fns
                                 /\ bucket = <<remote_fns[c]>>
                                 /\ \A k \in DOMAIN subscribers :
                                        k[2] => ~Matches(k[1], c)]
    /\ UNCHANGED <<caller, listen, codec, clients, adapter, phase, remote_fns, ext, subscriptions, worker, queues,
                   err, ops, invocations, freed, expected,
                   hist, core>>

\* _get_response_queue: bus.queue(name), up to the point where the first get
\* has opened the queue.  The in-memory queue comes into being in bus.queue,
\* the POSIX queue when the first get opens it (O_CREAT); a redis list exists
\* only while it has items.
StubAcquire ==
    /\ call.pc = "acquire"
    /\ call' = [call EXCEPT !.pc = "wait", !.acquired = TRUE]
    /\ queues' = IF adapter = "redis" \/ call.id \in DOMAIN queues THEN queues
                 ELSE Put(queues, call.id, << >>)
    /\ UNCHANGED <<caller, listen, codec, clients, adapter, phase, subscribers, remote_fns, ext, subscriptions,
                   loop, tasks, worker, err, ops, invocations, freed, expected,
                   hist, core>>

\* _finalize_response_queue: pass, except on IPC, where the queue is closed
\* and unlinked.
finalize(qs, id) == IF adapter = "ipc" THEN Del(qs, id) ELSE qs

\* a wait loop that always stops after its first wait
StubReceiveFirstOnly(r, origin, qs) ==
    /\ call' = [call EXCEPT !.results = Append(call.results, r),
                            !.from = Append(call.from, origin),
                            !.pc = "done",
                            !.rpc = Returns(<<r>>)]
    /\ queues' = finalize(qs, call.id)

\* One wait of the loop ended with response r (origin "queue" or "timeout");
\* after the last one the finally clause finalizes the queue and rpc returns.
StubReceive(r, origin, qs) ==
    LET results == Append(call.results, r)
        from == Append(call.from, origin)
        last == ~call.multi \/ Len(results) = call.n
    IN  /\ call' = [call EXCEPT !.results = results, !.from = from,
                                !.pc = IF last THEN "done" ELSE "wait",
                                !.rpc = IF ~last THEN Pending
                                        ELSE IF call.multi THEN Returns(results)
                                        ELSE Returns(<<results[1]>>)]
        /\ queues' = IF last THEN finalize(qs, call.id) ELSE qs

StubGet ==
    /\ call.pc = "wait"
    /\ Bucket(queues, call.id) # << >>
    /\ LET items == queues[call.id]
           rest == IF adapter = "redis" /\ Tail(items) = << >>
                   THEN Del(queues, call.id)
                   ELSE Put(queues, call.id, Tail(items))
       IN  StubReceive(Head(items), "queue", rest)
    /\ UNCHANGED <<caller, listen, codec, clients, adapter, phase, subscribers, remote_fns, ext, subscriptions,
                   loop, tasks, worker, err, ops, invocations, freed, expected,
                   hist, core>>

StubTimeout ==
    /\ call.pc = "wait"
    /\ Bucket(queues, call.id) = << >>
    /\ CanTimeout(adapter, call.timeout)
    /\ StubReceive(timeout_response(call.ch, call.timeout), "timeout", queues)
    /\ UNCHANGED <<caller, listen, codec, clients, adapter, phase, subscribers, remote_fns, ext, subscriptions,
                   loop, tasks, worker, err, ops, invocations, freed, expected,
                   hist, core>>

(***************************************************************************)
(* The dispatch loop and the dispatcher's workers.                         *)
(***************************************************************************)
\* The loop takes the next message and submits one task per callback of the
\* message's bucket.  redis and ipc skip a key that is not in the registry;
\* aws reads self._subscribers[key], which creates the bucket.
LoopStep ==
    /\ loop # << >>
    /\ LET msg == Head(loop)
           bucket == Bucket(subscribers, msg.key)
       IN  /\ loop' = Tail(loop)
           /\ tasks' = tasks \o [i \in 1..Len(bucket) |->
                                   [cb |-> bucket[i], event |-> msg.event]]
           /\ subscribers' = IF adapter = "aws"
                             THEN Put(subscribers, msg.key, bucket)
                             ELSE subscribers
    /\ UNCHANGED <<caller, listen, codec, clients, adapter, phase, remote_fns, ext, subscriptions, worker, queues,
                   call, err, ops, invocations, freed, expected,
                   hist, core>>

\* Queue.put on the queue named rq: bus.queue(name) and the first use create
\* the queue if it does not exist.
queue_put(qs, rq, item) == Put(qs, rq, Append(Bucket(qs, rq), item))

\* The response as the reply queue holds it.
stored(response) == IF Serializes(adapter) THEN wire(response) ELSE response

\* a skeleton that never replies
QueueResponseDropped(rq, response) == UNCHANGED <<queues, worker>>

\* _queue_response of a skeleton.  On IPC the response is dropped when the
\* reply queue does not exist; when it exists the put follows as a step of its
\* own.
skeleton_queue_response(rq, response) ==
    IF adapter = "ipc"
    THEN /\ worker' = IF rq \in DOMAIN queues
                      THEN Append(worker, [rq |-> rq, response |-> stored(response)])
                      ELSE worker
         /\ UNCHANGED queues
    ELSE /\ queues' = queue_put(queues, rq, stored(response))
         /\ UNCHANGED worker

\* a worker that dies with the exception a listener raises: the work still
\* submitted is never run
RunTaskUncontained(k) ==
    LET task == tasks[k]
        cb == task.cb
        event == task.event
        rest == [i \in 1..(Len(tasks) - 1) |-> IF i < k THEN tasks[i] ELSE tasks[i + 1]]
    IN  /\ tasks' = IF cb.kind = "listener" /\ cb.fn \in Raising THEN << >> ELSE rest
        /\ IF cb.kind = "skeleton"
           THEN /\ IF event.kind = "request"
                   THEN skeleton_queue_response(event.response_channel,
                                                skeleton_response(cb.fn, event))
                   ELSE UNCHANGED <<worker, queues>>
                /\ UNCHANGED invocations
           ELSE /\ invocations' = Append(invocations,
                                         [fn |-> cb.fn, kind |-> event.kind, v |-> event.v,
                                          ch |-> event.ch, raised |-> cb.fn \in Raising])
                /\ UNCHANGED <<worker, queues>>

\* A worker runs task k.  A skeleton computes the response of a request and
\* queues it; any other pairing of callback and event that fails is logged.  A
\* listener is called with the event; what it raises, or what decoding the
\* event for it raises, is logged by invoke_function (on the simple bus it
\* stays in the future nobody reads).
RunTask(k) ==
    LET task == tasks[k]
        cb == task.cb
        event == task.event
        rest == [i \in 1..(Len(tasks) - 1) |-> IF i < k THEN tasks[i] ELSE tasks[i + 1]]
    IN  /\ tasks' = rest
        /\ IF cb.kind = "skeleton"
           THEN /\ IF event.kind = "request"
                   THEN skeleton_queue_response(event.response_channel,
                                                skeleton_response(cb.fn, event))
                   ELSE UNCHANGED <<worker, queues>>
                /\ UNCHANGED invocations
           ELSE /\ invocations' = Append(invocations,
                                         [fn |-> cb.fn, kind |-> event.kind, v |-> event.v,
                                          ch |-> event.ch, raised |-> cb.fn \in Raising])
                /\ UNCHANGED <<worker, queues>>

WorkerStep ==
    /\ worker = << >>
    /\ \E k \in 1..Min(Len(tasks), Workers(adapter)) : RunTask(k)
    /\ UNCHANGED <<caller, listen, codec, clients, adapter, phase, subscribers, remote_fns, ext, subscriptions,
                   loop, call, err, ops, freed, expected,
                   hist, core>>

\* The IPC skeleton's put, after its exists() check succeeded: the queue is
\* opened with O_CREAT.
WorkerPut ==
    /\ worker # << >>
    /\ queues' = queue_put(queues, Head(worker).rq, Head(worker).response)
    /\ worker' = Tail(worker)
    /\ UNCHANGED <<caller, listen, codec, clients, adapter, phase, subscribers, remote_fns, ext, subscriptions,
                   loop, tasks, call, err, ops, invocations, freed, expected,
                   hist, core>>

(***************************************************************************)
(* Specifications.                                                         *)
(***************************************************************************)
RpcChannels == {"f"}

\* Registry operations issued in one behaviour of the RPC specification, whose
\* stub invocation comes on top of them.
RpcOps == 3

\* the argument lists stubs are called with: positional ones, or param="k"
CallArgs == (ArgLists \X {FALSE}) \cup {<<(<< >>), TRUE>>}
RpcKeys == {<<"f", FALSE>>, <<"f*", TRUE>>}

NextRpc ==
    \/ Run
    \/ \E key \in RpcKeys : ops < RpcOps /\ Subscribe("L1", key)
    \/ \E fn \in Fns, c \in RpcChannels : ops < RpcOps /\ Expose(fn, c)
    \/ \E c \in RpcChannels : ops < RpcOps /\ Unexpose(c)
    \/ \E c \in RpcChannels, a \in CallArgs, multi \in BOOLEAN, timeout \in Timeouts :
            StubPublish(c, a[1], a[2], multi, timeout)
    \/ StubAcquire
    \/ StubGet
    \/ StubTimeout
    \/ LoopStep
    \/ WorkerStep
    \/ WorkerPut

SpecRpc == Init /\ [][NextRpc]_vars

NextPubSub ==
    \/ Run
    \/ \E l \in Listeners, key \in Keys : Subscribe(l, key)
    \/ \E l \in Listeners, key \in Keys : Unsubscribe(l, key)
    \/ \E v \in Values, c \in Channels : Publish(v, c)
    \/ LoopStep
    \/ WorkerStep

SpecPubSub == Init /\ [][NextPubSub]_vars

\* two messages on one channel, as test_publish_on_same_channel sends them
Hellos == {"hello1", "hello2"}

NextOrder ==
    \/ Run
    \/ \E l \in Listeners : Subscribe(l, <<"f", FALSE>>)
    \/ \E l \in Listeners : Unsubscribe(l, <<"f", FALSE>>)
    \/ \E v \in Hellos : Publish(v, "f")
    \/ LoopStep
    \/ WorkerStep

SpecOrder == Init /\ [][NextOrder]_vars

(***************************************************************************)
(* The dispatch loop of the redis bus in detail (RedisEventBus._listen):   *)
(* it waits until the pubsub object has a subscription, takes messages     *)
(* from pubsub.listen() while there is one, and waits again.               *)
(***************************************************************************)
ListenFrame ==
    UNCHANGED <<caller, codec, clients, adapter, phase, subscribers, remote_fns, ext,
                subscriptions, loop, tasks, worker, queues, call, err, ops,
                invocations, freed, expected, hist, core>>

\* wait_for(lambda: self._pubsub.subscribed or self._closed) returns with a
\* subscription: pubsub.listen() is entered.  The pubsub object counts as
\* subscribed until it has read the server's answer to the last unsubscribe,
\* which comes after the messages sent before.
ListenWake ==
    /\ adapter = "redis" /\ phase = "running"
    /\ listen.pc = "waiting"
    /\ ext # {} \/ loop # << >>
    /\ listen' = [listen EXCEPT !.pc = "listening"]
    /\ ListenFrame

\* a _listen that ends when pubsub.listen() returns
ListenEnds ==
    /\ adapter = "redis" /\ phase = "running"
    /\ listen.pc = "listening"
    /\ ext = {} /\ loop = << >>
    /\ listen' = [listen EXCEPT !.pc = "returned"]
    /\ ListenFrame

\* pubsub.listen() returns once the last subscription is gone and what the
\* server had sent before has been taken; the while loop of _listen goes on
ListenReturn ==
    /\ adapter = "redis" /\ phase = "running"
    /\ listen.pc = "listening"
    /\ ext = {} /\ loop = << >>
    /\ listen' = [pc |-> "waiting", idled |-> TRUE]
    /\ ListenFrame

\* the dispatch loop takes a message; on redis out of pubsub.listen()
ListenLoopStep ==
    /\ adapter = "redis" => listen.pc = "listening"
    /\ LoopStep

\* one callback at a time is subscribed to the channel
NextListen ==
    \/ Run
    \/ \E l \in Listeners :
            /\ Bucket(subscribers, <<"f", FALSE>>) = << >>
            /\ Subscribe(l, <<"f", FALSE>>)
    \/ \E l \in Listeners : Unsubscribe(l, <<"f", FALSE>>)
    \/ \E v \in Hellos : Publish(v, "f")
    \/ ListenWake
    \/ ListenReturn
    \/ ListenLoopStep
    \/ WorkerStep

SpecListen == Init /\ [][NextListen]_vars

\* expose and unexpose with explicit and derived channels
ExposeChannels == RpcChannels \cup {get_remote_name(fn) : fn \in Fns}

NextExpose ==
    \/ Run
    \/ \E key \in RpcKeys : Subscribe("L1", key)
    \/ \E fn \in Fns, channel \in RpcChannels \cup {"None"} : Expose(fn, channel)
    \/ \E c \in ExposeChannels : Unexpose(c)
    \/ \E key \in RpcKeys : Unsubscribe("L1", key)

SpecExpose == Init /\ [][NextExpose]_vars

\* The RPC specification with the scheduling the code provides: a blocked get
\* returns when an item is there or its timeout expires, and the dispatch loop
\* and the workers keep running.
FairRpc ==
    /\ SpecRpc
    /\ WF_vars(StubAcquire)
    /\ WF_vars(StubGet)
    /\ WF_vars(StubTimeout)
    /\ WF_vars(LoopStep)
    /\ WF_vars(WorkerStep)
    /\ WF_vars(WorkerPut)

(***************************************************************************)
(* pymq.core: the module-level API over the process-wide bus.              *)
(***************************************************************************)
\* The entries of the core registry, bucket by bucket, each bucket in order.
Entries(ls) ==
    LET RECURSIVE flat(_)
        flat(ks) ==
            IF ks = << >> THEN << >>
            ELSE [i \in 1..Len(Bucket(ls, Head(ks))) |->
                    [key |-> Head(ks), cb |-> Bucket(ls, Head(ks))[i]]]
                 \o flat(Tail(ks))
    IN  flat(KeyOrder)

\* subscribe(cb, key) on a bus whose run() has not started, as a function of
\* the bus's registry and external subscriptions (see subscribe and
\* adapter_subscribe).
applied(st, cb, key) ==
    LET reg == [st EXCEPT !.subs = Put(@, key, Append(Bucket(@, key), cb))]
    IN  CASE adapter \in {"simple", "redis"} -> reg
          [] adapter = "ipc" ->
                IF key[2] THEN [reg EXCEPT !.err = "NotImplementedError"]
                ELSE [reg EXCEPT !.ext = @ \cup {key}]
          [] OTHER ->
                IF key[2] THEN [reg EXCEPT !.err = "NotImplementedError"]
                ELSE [reg EXCEPT !.err = "AttributeError"]

\* init() hands the registrations made so far to the bus it has just bound,
\* in order, up to the first one that raises.
drain(ls) ==
    LET RECURSIVE go(_, _)
        go(es, st) == IF es = << >> \/ st.err # "" THEN st
                      ELSE go(Tail(es), applied(st, Head(es).cb, Head(es).key))
    IN  go(Entries(ls), [subs |-> EmptyDict, ext |-> {}, err |-> ""])

\* _bus.add_listener / _bus.remove_listener of the bound bus
bus_add_listener(cb, key) == subscribe(cb, key)
bus_remove_listener(cb, key) == unsubscribe(cb, key)

\* start() once a bus is bound: the runner thread is created and started
\* unless one exists.
started(c) ==
    IF c.runner THEN c ELSE [c EXCEPT !.runner = TRUE, !.thread = "started"]

\* add_listener(callback, channel, pattern)
CoreAddListener(l, key) ==
    /\ core.pc = "idle"
    /\ ops < MaxOps
    /\ ops' = ops + 1
    /\ core' = [core EXCEPT !.listeners =
                    Put(@, key, Append(Bucket(@, key), Listener(l)))]
    /\ IF core.bus
       THEN bus_add_listener(Listener(l), key)
       ELSE err' = "" /\ UNCHANGED <<subscribers, ext, subscriptions>>
    /\ hist' = [hist EXCEPT !.ever = @ \cup {<<l, key>>},
                             !.raised = @ \/ err' # "",
                             !.calls = Append(@, "add_listener")]
    /\ UNCHANGED <<caller, listen, codec, clients, adapter, phase, remote_fns, loop, tasks, worker, queues, call,
                   invocations, freed, expected>>

\* a remove_listener that leaves the core registry as it is
remove_kept(ls, key, cb) == ls

\* what remove_listener makes of the core registry: callbacks.remove(callback)
\* on the bucket, which stays in the dict when it becomes empty
removed(ls, key, cb) == Put(ls, key, Remove(ls[key], cb))

\* remove_listener(callback, channel, pattern): _listeners.get(key) is None
\* for a missing bucket, and None.remove raises AttributeError; list.remove
\* raises ValueError when the callback is not in the bucket.
CoreRemoveListener(l, key) ==
    /\ core.pc = "idle"
    /\ ops < MaxOps
    /\ ops' = ops + 1
    /\ IF key \notin DOMAIN core.listeners
       THEN /\ err' = "AttributeError"
            /\ UNCHANGED <<core, subscribers, ext, subscriptions>>
       ELSE IF ~InSeq(core.listeners[key], Listener(l))
       THEN /\ err' = "ValueError"
            /\ UNCHANGED <<core, subscribers, ext, subscriptions>>
       ELSE /\ core' = [core EXCEPT !.listeners = removed(@, key, Listener(l))]
            /\ IF core.bus
               THEN bus_remove_listener(Listener(l), key)
               ELSE err' = "" /\ UNCHANGED <<subscribers, ext, subscriptions>>
    /\ hist' = [hist EXCEPT !.raised = @ \/ err' # "",
                             !.calls = Append(@, "remove_listener")]
    /\ UNCHANGED <<caller, listen, codec, clients, adapter, phase, remote_fns, loop, tasks, worker, queues, call,
                   invocations, freed, expected>>

\* expose(fn, channel)
CoreExpose(fn, channel) ==
    LET c == expose_channel(fn, channel)
        key == <<c, FALSE>>
    IN  /\ core.pc = "idle"
        /\ ops < MaxOps
        /\ ops' = ops + 1
        /\ IF c \in DOMAIN core.remote_fns
           THEN /\ err' = "ValueError"
                /\ UNCHANGED <<core, subscribers, ext, subscriptions>>
           ELSE /\ core' = [core EXCEPT
                                !.listeners = Put(@, key, Append(Bucket(@, key),
                                                                 Skeleton(fn, c))),
                                !.remote_fns = Put(@, c, fn)]
                /\ IF core.bus
                   THEN bus_add_listener(Skeleton(fn, c), key)
                   ELSE err' = "" /\ UNCHANGED <<subscribers, ext, subscriptions>>
        /\ hist' = [hist EXCEPT !.calls = Append(@, "expose")]
        /\ UNCHANGED <<caller, listen, codec, clients, adapter, phase, remote_fns, loop, tasks, worker, queues,
                       call, invocations, freed, expected>>

\* init(factory, start_bus): a new bus replaces whatever was bound (a bus
\* that is replaced is left behind with its thread), receives the
\* registrations made so far, and is started unless the caller opts out.
CoreInit(start_bus) ==
    /\ core.pc = "idle"
    /\ ops < MaxOps
    /\ ops' = ops + 1
    /\ LET st == drain(core.listeners)
           bound == [core EXCEPT !.bus = TRUE, !.told = FALSE,
                                 !.thread = IF core.runner THEN "foreign" ELSE "none"]
       IN  /\ subscribers' = st.subs
           /\ ext' = st.ext
           /\ err' = st.err
           /\ core' = IF start_bus /\ st.err = "" THEN started(bound) ELSE bound
    /\ phase' = "created"
    /\ remote_fns' = EmptyDict
    /\ subscriptions' = << >>
    /\ loop' = << >>
    /\ hist' = [hist EXCEPT !.calls = Append(@, IF start_bus THEN "init" ELSE "init_only")]
    /\ UNCHANGED <<caller, listen, codec, clients, adapter, tasks, worker, queues, call, invocations, freed,
                   expected>>

\* start()
CoreStart ==
    /\ core.pc = "idle"
    /\ ops < MaxOps
    /\ ops' = ops + 1
    /\ IF core.bus
       THEN err' = "" /\ core' = started(core)
       ELSE err' = "ValueError" /\ UNCHANGED core
    /\ hist' = [hist EXCEPT !.calls = Append(@, "start")]
    /\ UNCHANGED <<caller, listen, codec, clients, adapter, phase, subscribers, remote_fns, ext, subscriptions,
                   loop, tasks, worker, queues, call, invocations, freed,
                   expected>>

\* The runner thread enters run() of the bus it was started for.  A bus
\* whose close() came first leaves run() at once (ipc, aws).
CoreRun ==
    /\ core.thread = "started"
    /\ core' = [core EXCEPT !.thread = "running"]
    /\ phase' = IF phase = "created" THEN "running" ELSE phase
    /\ ext' = IF phase = "created" /\ adapter = "redis"
              THEN ext \cup DOMAIN subscribers ELSE ext
    /\ UNCHANGED <<caller, listen, codec, clients, adapter, subscribers, remote_fns, subscriptions, loop, tasks,
                   worker, queues, call, err, ops, invocations, freed, expected,
                   hist>>

\* a publish that hands the message to the adapter whether or not a bus is
\* bound
CorePublishUnguarded(v, c) ==
    /\ core.pc = "idle"
    /\ ops < MaxOps
    /\ ops' = ops + 1
    /\ err' = ""
    /\ publish(ValueEvent(v, c), c)
    /\ hist' = [hist EXCEPT !.pubs = Append(@,
                    [v |-> v, ch |-> c, op |-> ops',
                     on |-> IF core.bus THEN phase ELSE "unbound",
                     ret |-> publish_returns(c)]),
                             !.calls = Append(@, "publish")]
    /\ UNCHANGED <<caller, listen, codec, clients, adapter, phase, remote_fns, ext, subscriptions, worker, queues,
                   call, invocations, freed, expected, core>>

\* publish(event, channel): logs an error and returns None without a bus
CorePublish(v, c) ==
    /\ core.pc = "idle"
    /\ ops < MaxOps
    /\ ops' = ops + 1
    /\ err' = ""
    /\ IF core.bus
       THEN publish(ValueEvent(v, c), c)
       ELSE UNCHANGED <<subscribers, tasks, loop>>
    /\ hist' = [hist EXCEPT !.pubs = Append(@,
                    [v |-> v, ch |-> c, op |-> ops',
                     on |-> IF core.bus THEN phase ELSE "unbound",
                     ret |-> IF core.bus THEN publish_returns(c) ELSE << >>]),
                             !.calls = Append(@, "publish")]
    /\ UNCHANGED <<caller, listen, codec, clients, adapter, phase, remote_fns, ext, subscriptions, worker, queues,
                   call, invocations, freed, expected, core>>

\* close() of the bound bus.
\*   simple: shuts the dispatcher down if run() has created it.
\*   redis:  returns at once while there is no pubsub object; else sets
\*           _closed, unsubscribes everything and shuts the dispatcher down.
\*   ipc:    sets _closed and, if the event loop runs, sends it the poison;
\*           the loop's cleanup clears the routing table.
\*   aws:    sets _closed, unsubscribes everything, sends the close event.
bus_close ==
    CASE adapter = "simple" ->
            /\ phase' = IF phase = "running" THEN "closed" ELSE phase
            /\ UNCHANGED <<ext, subscriptions>>
      [] adapter = "redis" ->
            /\ phase' = IF phase = "running" THEN "closed" ELSE phase
            /\ ext' = IF phase = "running" THEN {} ELSE ext
            /\ UNCHANGED subscriptions
      [] adapter = "ipc" ->
            /\ phase' = "closed"
            /\ ext' = IF phase = "running" THEN {} ELSE ext
            /\ UNCHANGED subscriptions
      [] OTHER ->
            /\ phase' = "closed"
            /\ ext' = {}
            /\ subscriptions' = << >>

\* a shutdown() that resets the registry also when there is no runner thread
CoreShutdownResets ==
    /\ core.pc = "idle"
    /\ ops < MaxOps
    /\ ops' = ops + 1
    /\ IF core.runner
       THEN /\ bus_close
            /\ core' = [core EXCEPT !.pc = "joining", !.told = TRUE]
       ELSE /\ core' = [core EXCEPT !.listeners = EmptyDict,
                                     !.remote_fns = EmptyDict]
            /\ UNCHANGED <<phase, ext, subscriptions>>
    /\ err' = ""
    /\ hist' = [hist EXCEPT !.calls = Append(@, "shutdown")]
    /\ UNCHANGED <<caller, listen, codec, clients, adapter, subscribers, remote_fns, loop, tasks, worker, queues,
                   call, invocations, freed, expected>>

\* shutdown(): returns at once when there is no runner thread; else closes
\* the bus and waits for the thread.
CoreShutdown ==
    /\ core.pc = "idle"
    /\ ops < MaxOps
    /\ ops' = ops + 1
    /\ IF core.runner
       THEN /\ bus_close
            /\ core' = [core EXCEPT !.pc = "joining", !.told = TRUE]
       ELSE UNCHANGED <<core, phase, ext, subscriptions>>
    /\ err' = ""
    /\ hist' = [hist EXCEPT !.calls = Append(@, "shutdown")]
    /\ UNCHANGED <<caller, listen, codec, clients, adapter, subscribers, remote_fns, loop, tasks, worker, queues,
                   call, invocations, freed, expected>>

\* run() of the thread's bus has returned and, where close() (ipc: the
\* loop's cleanup) shut a dispatcher down, dispatcher.shutdown() has waited
\* for the submitted work.  simple's run() returns as soon as it has created
\* the dispatcher; the others return once their bus is closed.  simple's
\* close() shuts the dispatcher down only if run() had created it.
Joinable ==
    /\ phase = "closed" => tasks = << >> /\ worker = << >>
    /\ CASE core.thread = "running" -> adapter = "simple" \/ phase = "closed"
         [] core.thread = "foreign" -> adapter = "simple"
         [] OTHER -> FALSE

\* shutdown() after _runner.join() returned: the module state is reset
CoreJoin ==
    /\ core.pc = "joining"
    /\ Joinable
    /\ core' = [Unbound EXCEPT !.told = core.told]
    /\ loop' = << >>
    /\ err' = ""
    /\ UNCHANGED <<caller, listen, codec, clients, adapter, phase, subscribers, remote_fns, ext, subscriptions,
                   tasks, worker, queues, call, ops, invocations, freed,
                   expected, hist>>

\* queue(name) of the bound bus, run without interruption: the simple bus
\* keeps one queue object per name, the aws bus gets or creates the SQS
\* queue; redis and ipc only build a handle.  The result is the registry, the
\* queues and the handle.
bus_queue(name) ==
    LET by_name == <<name, 0>>
        fresh == <<name, clients.made + 1>>
        same == [reg |-> clients.reg, made |-> clients.made, qs |-> queues,
                 h |-> by_name]
    IN  CASE adapter = "simple" ->
                IF name \in DOMAIN clients.reg
                THEN [same EXCEPT !.h = clients.reg[name]]
                ELSE [reg |-> Put(clients.reg, name, fresh),
                      made |-> clients.made + 1,
                      qs |-> Put(queues, fresh, << >>),
                      h |-> fresh]
          [] adapter = "aws" ->
                IF by_name \in DOMAIN queues THEN same
                ELSE [same EXCEPT !.qs = Put(queues, by_name, << >>)]
          [] OTHER -> same

\* a queue(name) that does not look whether a bus is bound
CoreQueueUnguarded(name) ==
    /\ core.pc = "idle"
    /\ ops < MaxOps
    /\ ops' = ops + 1
    /\ err' = ""
    /\ queues' = bus_queue(name).qs
    /\ clients' = [clients EXCEPT !.reg = bus_queue(name).reg,
                                  !.made = bus_queue(name).made]
    /\ hist' = [hist EXCEPT !.calls = Append(@, "queue")]
    /\ UNCHANGED <<caller, listen, codec, adapter, phase, subscribers, remote_fns, ext, subscriptions,
                   loop, tasks, worker, call, invocations, freed, expected, core>>

\* queue(name): ValueError('Bus not set yet') without a bus
CoreQueue(name) ==
    /\ core.pc = "idle"
    /\ ops < MaxOps
    /\ ops' = ops + 1
    /\ IF core.bus
       THEN /\ err' = ""
            /\ queues' = bus_queue(name).qs
            /\ clients' = [clients EXCEPT !.reg = bus_queue(name).reg,
                                          !.made = bus_queue(name).made]
       ELSE err' = "ValueError" /\ UNCHANGED <<queues, clients>>
    /\ hist' = [hist EXCEPT !.calls = Append(@, "queue")]
    /\ UNCHANGED <<caller, listen, codec, adapter, phase, subscribers, remote_fns, ext, subscriptions,
                   loop, tasks, worker, call, invocations, freed, expected, core>>

\* stub(fn): the bus-not-set error without a bus; a bound bus builds the stub
\* method, which touches nothing until it is called
CoreStub ==
    /\ core.pc = "idle"
    /\ ops < MaxOps
    /\ ops' = ops + 1
    /\ err' = IF core.bus THEN "" ELSE "ValueError"
    /\ hist' = [hist EXCEPT !.calls = Append(@, "stub")]
    /\ UNCHANGED <<caller, listen, codec, clients, adapter, phase, subscribers, remote_fns, ext, subscriptions,
                   loop, tasks, worker, queues, call, invocations, freed,
                   expected, core>>

\* The handles topic(name, pattern) returns: a name and a pattern flag, and no
\* reference to a bus.
Topics == {[name |-> "f", is_pattern |-> FALSE],
           [name |-> "f*", is_pattern |-> TRUE]}

\* topic.subscribe(callback) of a handle: subscribe(callback, name, is_pattern)
\* of the module, which registers the callback and, with a bus bound, hands it
\* to the bus
TopicSubscribe(l, t) ==
    LET key == <<t.name, t.is_pattern>> IN
    /\ core.pc = "idle"
    /\ ops < MaxOps
    /\ ops' = ops + 1
    /\ core' = [core EXCEPT !.listeners =
                    Put(@, key, Append(Bucket(@, key), Listener(l)))]
    /\ IF core.bus
       THEN bus_add_listener(Listener(l), key)
       ELSE err' = "" /\ UNCHANGED <<subscribers, ext, subscriptions>>
    /\ hist' = [hist EXCEPT !.ever = @ \cup {<<l, key>>},
                             !.raised = @ \/ err' # "",
                             !.calls = Append(@, "topic.subscribe")]
    /\ UNCHANGED <<caller, listen, codec, clients, adapter, phase, remote_fns, loop, tasks, worker, queues, call,
                   invocations, freed, expected>>

\* topic.publish(event) of a handle: nothing without a bus; with one, the
\* bus's publish on the handle's name (a pattern handle cannot publish)
TopicPublish(v, t) ==
    /\ core.pc = "idle"
    /\ ops < MaxOps
    /\ ops' = ops + 1
    /\ err' = IF core.bus /\ t.is_pattern THEN "ValueError" ELSE ""
    /\ IF core.bus /\ ~t.is_pattern
       THEN publish(ValueEvent(v, t.name), t.name)
       ELSE UNCHANGED <<subscribers, tasks, loop>>
    /\ hist' = [hist EXCEPT !.pubs = Append(@,
                    [v |-> v, ch |-> t.name, op |-> ops',
                     on |-> IF core.bus THEN phase ELSE "unbound",
                     ret |-> IF core.bus /\ ~t.is_pattern
                             THEN publish_returns(t.name) ELSE << >>]),
                             !.calls = Append(@, "topic.publish")]
    /\ UNCHANGED <<caller, listen, codec, clients, adapter, phase, remote_fns, ext, subscriptions, worker, queues,
                   call, invocations, freed, expected, core>>

CoreKeys == {<<"f", FALSE>>, <<"f*", TRUE>>}

NextCore ==
    \/ \E l \in Listeners, key \in CoreKeys : CoreAddListener(l, key)
    \/ \E l \in Listeners, key \in CoreKeys : CoreRemoveListener(l, key)
    \/ CoreExpose("void_function", "f")
    \/ \E start_bus \in BOOLEAN : CoreInit(start_bus)
    \/ CoreStart
    \/ \E name \in QueueNames : CoreQueue(name)
    \/ CoreStub
    \/ CoreRun
    \/ \E c \in Channels : CorePublish("e1", c)
    \/ CoreShutdown
    \/ CoreJoin
    \/ LoopStep
    \/ WorkerStep

SpecCore == Init /\ [][NextCore]_vars

\* The runner thread, the event loop, the dispatcher's worker and the thread
\* inside shutdown() are threads of the interpreter: each of them goes on
\* when it can.
FairCore ==
    /\ SpecCore
    /\ WF_vars(CoreRun)
    /\ WF_vars(LoopStep)
    /\ WF_vars(WorkerStep)
    /\ WF_vars(CoreJoin)

(***************************************************************************)
(* pymq.publish and pymq.queue beside shutdown.  Neither takes the module  *)
(* lock: each tests `_bus is None` and then reads _bus again to call the   *)
(* bus, and another thread may run in between.                             *)
(***************************************************************************)
CallerOps == {"publish", "queue"}

\* the test `if _bus is None` of publish and queue: without a bus publish
\* logs and returns None, queue raises ValueError
CallerTests(op) ==
    /\ caller.pc = "idle"
    /\ ops < MaxOps
    /\ ops' = ops + 1
    /\ caller' = IF core.bus
                 THEN [pc |-> "tested", op |-> op, out |-> ""]
                 ELSE [pc |-> "idle", op |-> op,
                       out |-> IF op = "publish" THEN "None" ELSE "ValueError"]
    /\ UNCHANGED <<listen, codec, clients, adapter, phase, subscribers, remote_fns, ext,
                   subscriptions, loop, tasks, worker, queues, call, err,
                   invocations, freed, expected, hist, core>>

\* `return _bus.publish(event, channel)` and `return _bus.queue(name)`: the
\* global is read again; on None the attribute lookup raises AttributeError
CallerCalls ==
    /\ caller.pc = "tested"
    /\ IF core.bus
       THEN /\ caller' = [caller EXCEPT !.pc = "idle", !.out = "delegated"]
            /\ IF caller.op = "publish"
               THEN publish(ValueEvent("e1", "f"), "f") /\ UNCHANGED <<queues, clients>>
               ELSE /\ queues' = bus_queue("q1").qs
                    /\ clients' = [clients EXCEPT !.reg = bus_queue("q1").reg,
                                                  !.made = bus_queue("q1").made]
                    /\ UNCHANGED <<subscribers, tasks, loop>>
       ELSE /\ caller' = [caller EXCEPT !.pc = "idle", !.out = "AttributeError"]
            /\ UNCHANGED <<subscribers, tasks, loop, queues, clients>>
    /\ UNCHANGED <<listen, codec, adapter, phase, remote_fns, ext, subscriptions, worker,
                   call, err, ops, invocations, freed, expected, hist, core>>

NextCaller ==
    \/ \E l \in Listeners : CoreAddListener(l, <<"f", FALSE>>)
    \/ \E start_bus \in BOOLEAN : CoreInit(start_bus)
    \/ CoreStart
    \/ CoreRun
    \/ CoreShutdown
    \/ CoreJoin
    \/ LoopStep
    \/ WorkerStep
    \/ \E op \in CallerOps : CallerTests(op)
    \/ CallerCalls

SpecCaller == Init /\ [][NextCaller]_vars

(***************************************************************************)
(* Named queues (Queue of pymq.core and the adapters' queue classes), used *)
(* by two threads at once.                                                 *)
(***************************************************************************)
\* items the threads put
Items == {"a", "b"}

\* items put in one behaviour
MaxPuts == 2

\* _serialize / _deserialize of the queues that keep text: json.dumps and
\* json.loads of a string
q_serialize(v) == IF Serializes(adapter) THEN <<"json", v>> ELSE v
q_deserialize(x) == IF Serializes(adapter) THEN x[2] ELSE x

\* The stored items after a put: LPUSH puts the item at the head of the
\* list; the others append.
q_put(items, x) == IF adapter = "redis" THEN <<x>> \o items ELSE Append(items, x)

\* The positions a get may take its item from: RPOP/BRPOP take the tail of
\* the list, a PythonQueue and a POSIX queue the oldest item; a standard SQS
\* queue (create_queue without the FifoQueue attribute) hands out any of its
\* messages.
q_choices(items) ==
    CASE adapter = "redis" -> IF items = << >> THEN {} ELSE {Len(items)}
      [] adapter = "aws" -> DOMAIN items
      [] OTHER -> IF items = << >> THEN {} ELSE {1}

q_without(items, i) == SubSeq(items, 1, i - 1) \o SubSeq(items, i + 1, Len(items))

\* whether a blocking get with this timeout ever gives up: BRPOP takes a
\* timeout of 0 (and None, which redis-py sends as 0) as "wait forever"
expires(timeout) ==
    /\ timeout # "None"
    /\ ~(adapter = "redis" /\ timeout = "0")

Puts == Len(hist.puts["q1"]) + Len(hist.puts["q2"])

QueueFrame ==
    UNCHANGED <<caller, listen, codec, adapter, phase, subscribers, remote_fns, ext, subscriptions,
                loop, tasks, worker, call, ops, invocations, freed, expected,
                core>>

\* bus.queue(name) by thread t.  SimpleEventBus.queue looks the name up and,
\* when it is absent, creates and stores a queue object in further steps,
\* without a lock; the other buses answer in one step.
QueueOpen(t, name) ==
    /\ clients.th[t].pc = "idle"
    /\ err' = ""
    /\ IF adapter = "simple" /\ name \notin DOMAIN clients.reg
       THEN /\ clients' = [clients EXCEPT !.th[t].pc = "opening",
                                          !.th[t].name = name]
            /\ UNCHANGED queues
       ELSE /\ clients' = [clients EXCEPT !.th[t].h = bus_queue(name).h,
                                          !.th[t].name = name]
            /\ queues' = bus_queue(name).qs
    /\ UNCHANGED hist
    /\ QueueFrame

\* self.queues[name] = q with a new PythonQueue q
QueueStore(t) ==
    /\ clients.th[t].pc = "opening"
    /\ LET id == <<clients.th[t].name, clients.made + 1>>
       IN  /\ clients' = [clients EXCEPT !.th[t].pc = "stored",
                                         !.made = @ + 1,
                                         !.reg = Put(@, clients.th[t].name, id)]
           /\ queues' = Put(queues, id, << >>)
    /\ UNCHANGED <<err, hist>>
    /\ QueueFrame

\* return self.queues[name]
QueueReturn(t) ==
    /\ clients.th[t].pc = "stored"
    /\ clients' = [clients EXCEPT !.th[t].pc = "idle",
                                  !.th[t].h = clients.reg[clients.th[t].name]]
    /\ UNCHANGED <<queues, err, hist>>
    /\ QueueFrame

\* q.put(v) through the handle of thread t
QueuePut(t, v) ==
    /\ clients.th[t].pc = "idle"
    /\ clients.th[t].h # NoHandle
    /\ Puts < MaxPuts
    /\ LET h == clients.th[t].h
       IN  /\ queues' = Put(queues, h, q_put(Bucket(queues, h), q_serialize(v)))
           /\ hist' = [hist EXCEPT !.puts[h[1]] = Append(@, v)]
    /\ err' = ""
    /\ UNCHANGED clients
    /\ QueueFrame

\* thread t takes the item at position i out of its queue and returns it
taken(t, i) ==
    LET h == clients.th[t].h
    IN  /\ queues' = Put(queues, h, q_without(queues[h], i))
        /\ hist' = [hist EXCEPT !.gets[h[1]] = Append(@, q_deserialize(queues[h][i]))]
        /\ err' = ""

\* q.get(block, timeout) through the handle of thread t; get_nowait() is
\* get(block=False)
QueueGet(t, block, timeout) ==
    /\ clients.th[t].pc = "idle"
    /\ clients.th[t].h # NoHandle
    /\ LET items == Bucket(queues, clients.th[t].h)
       IN  IF q_choices(items) # {}
           THEN /\ \E i \in q_choices(items) : taken(t, i)
                /\ UNCHANGED clients
           ELSE /\ IF block
                   THEN /\ clients' = [clients EXCEPT !.th[t].pc = "waiting",
                                                      !.th[t].timeout = timeout]
                        /\ err' = ""
                   ELSE /\ err' = "Empty"
                        /\ UNCHANGED clients
                /\ UNCHANGED <<queues, hist>>
    /\ QueueFrame

\* an item has arrived for a thread that waits in get
QueueWake(t) ==
    /\ clients.th[t].pc = "waiting"
    /\ \E i \in q_choices(Bucket(queues, clients.th[t].h)) : taken(t, i)
    /\ clients' = [clients EXCEPT !.th[t].pc = "idle", !.th[t].timeout = "None"]
    /\ QueueFrame

\* the timeout of a waiting get has passed: Empty
QueueTimeout(t) ==
    /\ clients.th[t].pc = "waiting"
    /\ q_choices(Bucket(queues, clients.th[t].h)) = {}
    /\ expires(clients.th[t].timeout)
    /\ clients' = [clients EXCEPT !.th[t].pc = "idle", !.th[t].timeout = "None"]
    /\ err' = "Empty"
    /\ UNCHANGED <<queues, hist>>
    /\ QueueFrame

\* what q.qsize() returns through handle h: the PythonQueue's length, LLEN,
\* current_messages of the POSIX queue, ApproximateNumberOfMessages
qsize(h) == Len(Bucket(queues, h))

NextQueue ==
    \/ \E t \in Threads, name \in QueueNames : QueueOpen(t, name)
    \/ \E t \in Threads : QueueStore(t)
    \/ \E t \in Threads : QueueReturn(t)
    \/ \E t \in Threads, v \in Items : QueuePut(t, v)
    \/ \E t \in Threads, block \in BOOLEAN, timeout \in Timeouts :
            QueueGet(t, block, timeout)
    \/ \E t \in Threads : QueueWake(t)
    \/ \E t \in Threads : QueueTimeout(t)

SpecQueue == Init /\ [][NextQueue]_vars

\* An application that uses the bus through topic handles only.
NextTopic ==
    \/ \E l \in Listeners, t \in Topics : TopicSubscribe(l, t)
    \/ \E t \in Topics : TopicPublish("e1", t)
    \/ \E start_bus \in BOOLEAN : CoreInit(start_bus)
    \/ CoreStart
    \/ CoreRun
    \/ CoreShutdown
    \/ CoreJoin
    \/ LoopStep
    \/ WorkerStep

SpecTopic == Init /\ [][NextTopic]_vars

(***************************************************************************)
(* Claims.                                                                 *)
(***************************************************************************)
\* What calling fn directly on the stub's arguments does, seen through the RPC
\* boundary: its return value, or RemoteInvocationError with the exception's
\* type name and arguments.
Direct(fn, args, kw) ==
    LET r == Apply(fn, args, kw)
    IN  IF r.raised
        THEN Raises("RemoteInvocationError",
                    <<[kind |-> "error", cls |-> "RemoteInvocationError",
                       items |-> <<r.val.cls>> \o r.val.items]>>)
        ELSE Returns(<<r.val>>)

\* the finished invocation, and what the call form made of it
Done == call.pc = "done"
Outcome == stub_call(call.rpc, call.multi)

\* C1: a single-result stub call on a channel with exactly one exposed
\* function and no other subscriber, whose response arrived on the reply
\* queue, has the outcome of calling the function directly on the same
\* arguments: the same return value, or RemoteInvocationError with the raised
\* exception's type name and arguments.
C1_StubEqualsDirect ==
    (Done /\ ~call.multi /\ call.solo0 /\ call.from = <<"queue">>)
        => Outcome = Direct(call.fn0, call.args, call.kw)

\* C2: when publish reports zero recipients, rpc raises NoSuchRemoteError, the
\* call form returns None (single) or the empty list (multi), no wait on a
\* reply queue took place, and no reply queue of the invocation exists.
C2_NoRemote ==
    (Done /\ ~call.none /\ call.n = 0)
        => /\ call.rpc = Raises("NoSuchRemoteError", << >>)
           /\ Outcome = Returns(IF call.multi THEN << >> ELSE <<PyNone>>)
           /\ call.from = << >>
           /\ ~call.acquired
           /\ call.id \notin DOMAIN queues

C2_Witness ==
    /\ Done /\ ~call.none /\ call.n = 0 /\ call.multi
    /\ "f" \in freed
    /\ phase = "running"

\* C3: a finished stub call returned, or raised NoSuchRemoteError, or (single
\* mode) raised RemoteInvocationError; nothing else escapes.
C3_Outcomes ==
    Done => \/ Outcome.kind = "return"
            \/ Outcome.exc = "NoSuchRemoteError"
            \/ ~call.multi /\ Outcome.exc = "RemoteInvocationError"

\* C4: a stub with a finite timeout that waits for a response finishes the
\* invocation: the wait ends with the response or with the synthetic
\* TimeoutError response.
C4_FiniteTimeoutEnds ==
    (call.pc = "wait" /\ call.timeout # "None") ~> Done

\* C5: when publish reports n >= 1, the invocation returns; in multi mode it
\* returns exactly n responses, one per wait, in single mode it waits once and
\* returns one response; every response was taken from the reply queue or is
\* the synthetic timeout response; before that, no more than n waits ended.
C5_OnePerWait ==
    /\ Len(call.from) = Len(call.results)
    /\ call.pc = "wait" => Len(call.results) < (IF call.multi THEN call.n ELSE 1)
    /\ (Done /\ ~call.none /\ call.n >= 1)
        => /\ call.rpc.kind = "return"
           /\ IF call.multi
              THEN Len(call.results) = call.n /\ call.rpc.vals = call.results
              ELSE Len(call.results) = 1 /\ call.rpc.vals = <<call.results[1]>>
           /\ \A k \in 1..Len(call.results) :
                \/ call.from[k] = "queue"
                \/ /\ call.from[k] = "timeout"
                   /\ call.results[k] = timeout_response(call.ch, call.timeout)

C5_Witness ==
    /\ Done /\ call.multi /\ call.n = 2
    /\ call.from = <<"queue", "timeout">>

\* A worker step that runs the skeleton of task k on a request.
SkeletonStep(k) ==
    /\ WorkerStep
    /\ tasks[k].cb.kind = "skeleton"
    /\ tasks[k].event.kind = "request"
    /\ RunTask(k)

\* resp is the response to request by fn: a success response carrying the
\* return value and its type name when fn returns, an error response carrying
\* the exception's type name and arguments when it raises.
Proper(resp, fn, request) ==
    LET r == skeleton_invoke(fn, request.args)
    IN  /\ resp.fn = request.fn
        /\ resp.error = r.raised
        /\ resp.result.items = r.val.items
        /\ resp.result_type = IF r.raised THEN r.val.cls ELSE fullname(r.val.items[1])

Last(q) == q[Len(q)]

\* The step of task k put exactly one proper response on the reply queue the
\* request names (on IPC: decided on exactly that put).
Enqueued(k) ==
    LET request == tasks[k].event
        rq == request.response_channel
    IN  IF adapter = "ipc"
        THEN /\ queues' = queues
             /\ Len(worker') = 1
             /\ worker'[1].rq = rq
             /\ Proper(worker'[1].response, tasks[k].cb.fn, request)
        ELSE /\ rq \in DOMAIN queues'
             /\ queues'[rq] # << >>
             /\ queues' = queue_put(queues, rq, Last(queues'[rq]))
             /\ Proper(Last(queues'[rq]), tasks[k].cb.fn, request)

\* C6 as stated: every request a skeleton runs on yields exactly one response
\* on the reply queue named in the request, and the dispatch loop's pending
\* messages are untouched by it.
C6_AlwaysEnqueued ==
    [][\A k \in 1..Len(tasks) : SkeletonStep(k) => (Enqueued(k) /\ loop' = loop)]_vars

\* C6: every request a skeleton runs on yields exactly one response (success
\* or error, as the function returned or raised) on the reply queue named in
\* the request, except on IPC when that queue does not exist at the moment of
\* the reply: then the response is dropped.  A put decided on is carried out,
\* and the dispatch loop's pending messages are untouched.
C6_EnqueuedUnlessGone ==
    [][/\ \A k \in 1..Len(tasks) :
            SkeletonStep(k) =>
                /\ IF adapter = "ipc" /\ tasks[k].event.response_channel \notin DOMAIN queues
                   THEN UNCHANGED <<queues, worker>>
                   ELSE Enqueued(k)
                /\ loop' = loop
       /\ WorkerPut =>
            /\ Head(worker).rq \in DOMAIN queues'
            /\ Last(queues'[Head(worker).rq]) = Head(worker).response
      ]_vars

\* the only request of the behaviour reached the skeleton, which dropped the
\* response because the reply queue did not exist
C6_Witness ==
    /\ adapter = "ipc" /\ ops = 1 /\ phase = "running"
    /\ Done /\ call.n = 1 /\ call.from = <<"timeout">>
    /\ loop = << >> /\ tasks = << >> /\ worker = << >>
    /\ call.id \notin DOMAIN queues

\* C7: on IPC no reply queue of a finished invocation that acquired one
\* exists.
C7_NoReplyQueueRemains ==
    (Done /\ call.acquired /\ adapter = "ipc") => call.id \notin DOMAIN queues

SkeletonCount(bucket) ==
    Cardinality({i \in 1..Len(bucket) : bucket[i].kind = "skeleton"})

\* C8: no bucket of the registry ever holds more than one skeleton, every
\* exposed channel has its one skeleton there, and expose on a channel that is
\* exposed - given or derived from the function - raises ValueError and
\* leaves the exposed-function map and the registry as they were.
C8_OnePerChannel ==
    [][/\ \A key \in DOMAIN subscribers' : SkeletonCount(subscribers'[key]) <= 1
       /\ \A fn \in Fns, channel \in RpcChannels \cup {"None"} :
            (Expose(fn, channel) /\ expose_channel(fn, channel) \in DOMAIN remote_fns)
                => /\ err' = "ValueError"
                   /\ UNCHANGED <<remote_fns, subscribers, ext, subscriptions>>
      ]_vars

\* a second expose of void_function under its derived name was refused
C8_Witness ==
    /\ err = "ValueError"
    /\ ops = 2
    /\ DOMAIN remote_fns = {get_remote_name("void_function")}

\* C9: a stub rpc issued on a channel that was unexposed and not exposed again,
\* and that nothing else subscribes to, raises NoSuchRemoteError.
C9_RpcWhileUnexposed ==
    [][(/\ call'.id = call.id + 1
        /\ call'.ch \in freed
        /\ \A key \in DOMAIN subscribers :
                Receives(key, call'.ch) => subscribers[key] = << >>)
            => call'.rpc = Raises("NoSuchRemoteError", << >>)]_vars

Count(s, l, v) == Cardinality({i \in 1..Len(s) : s[i].fn = l /\ s[i].v = v})

\* C10 on the in-process adapter: once nothing is left to dispatch, every
\* listener was invoked with every published value exactly as often as it was
\* registered for the value's channel - exactly or by a matching pattern -
\* when the value was published on the running bus.
C10_SimpleDelivers ==
    (adapter = "simple" /\ loop = << >> /\ tasks = << >>)
        => \A l \in Listeners, v \in Values :
                Count(invocations, l, v) = Count(expected, l, v)

\* C11: a listener is invoked with a message only if it was registered under
\* a key that receives the message's channel - the channel itself, or a
\* pattern matching it; a message on a channel nobody ever subscribed to
\* invokes nobody.
C11_RoutedByChannel ==
    /\ \A i \in DOMAIN invocations :
            \E key \in Keys :
                /\ <<invocations[i].fn, key>> \in hist.ever
                /\ Receives(key, invocations[i].ch)
    /\ \A c \in Channels :
            (\A r \in hist.ever : ~Receives(r[2], c))
                => \A i \in DOMAIN invocations : invocations[i].ch # c

\* L1 listens on f and L2 on g; e1 was published on f and dispatched: L1 alone
\* was invoked
C11_Witness ==
    /\ hist.ever = {<<"L1", <<"f", FALSE>>>>, <<"L2", <<"g", FALSE>>>>}
    /\ Len(hist.pubs) = 1 /\ hist.pubs[1].ch = "f"
    /\ loop = << >> /\ tasks = << >>
    /\ Len(invocations) = 1
    /\ invocations[1].fn = "L1" /\ invocations[1].ch = "f"

\* how often callback cb stands in the buckets of the registry, and in the
\* work submitted to the dispatcher
Registrations(subs, cb) ==
    LET RECURSIVE sum(_)
        sum(ks) == IF ks = {} THEN 0
                   ELSE LET k == CHOOSE x \in ks : TRUE
                        IN  Cardinality({i \in DOMAIN subs[k] : subs[k][i] = cb})
                            + sum(ks \ {k})
    IN  sum(DOMAIN subs)
TasksFor(ts, cb) == Cardinality({i \in DOMAIN ts : ts[i].cb = cb})
InvocationsOf(invs, l) == Cardinality({i \in DOMAIN invs : invs[i].fn = l})

\* C12: an unsubscribe that returns takes one registration of the callback
\* out of the bucket; while a callback has no registration left, no step
\* submits work for it, whatever is published or dispatched, and a listener
\* is only ever invoked by running work that was submitted for it.  So a
\* callback is not invoked for a message published after its unsubscribe
\* returned.
C12_NoWorkOnceUnsubscribed ==
    [][\A l \in Listeners :
        LET cb == Listener(l)
        IN  /\ \A key \in Keys :
                    (Unsubscribe(l, key) /\ err' = ""
                        /\ InSeq(Bucket(subscribers, key), cb))
                    => Registrations(subscribers', cb)
                            = Registrations(subscribers, cb) - 1
            /\ (Registrations(subscribers, cb) = 0
                    /\ Registrations(subscribers', cb) = 0)
                => TasksFor(tasks', cb) <= TasksFor(tasks, cb)
            /\ InvocationsOf(invocations', l) > InvocationsOf(invocations, l)
                => TasksFor(tasks', cb) = TasksFor(tasks, cb) - 1
      ]_vars

\* L1 subscribed to f and unsubscribed; then, as the third operation, e1 was
\* published on f on the running bus and everything was dispatched: L1 was
\* not invoked
C12_Witness ==
    /\ hist.ever = {<<"L1", <<"f", FALSE>>>>}
    /\ Registrations(subscribers, Listener("L1")) = 0
    /\ Len(hist.pubs) = 1 /\ hist.pubs[1].ch = "f" /\ hist.pubs[1].op = 3
    /\ hist.pubs[1].on = "running"
    /\ loop = << >> /\ tasks = << >>
    /\ invocations = << >>

\* C13: an unsubscribe of a callback that is not in the bucket of its key -
\* the bucket missing, or holding other callbacks only - raises nothing and
\* leaves the registry as it was.
C13_UnsubscribeUnregistered ==
    [][\A l \in Listeners, key \in Keys :
        (Unsubscribe(l, key) /\ ~InSeq(Bucket(subscribers, key), Listener(l)))
            => (err' = "" /\ subscribers' = subscribers)
      ]_vars

\* bucket b without its first entry equal to cb
WithoutFirst(b, cb) ==
    LET i == CHOOSE n \in DOMAIN b : b[n] = cb /\ \A m \in 1..(n - 1) : b[m] # cb
    IN  SubSeq(b, 1, i - 1) \o SubSeq(b, i + 1, Len(b))
Occurrences(b, cb) == Cardinality({i \in DOMAIN b : b[i] = cb})
Submitted == SubSeq(tasks', Len(tasks) + 1, Len(tasks'))

RegistryStep ==
    \A l \in Listeners, key \in Keys :
        /\ Subscribe(l, key)
                => Bucket(subscribers', key)
                    = Append(Bucket(subscribers, key), Listener(l))
        /\ (Unsubscribe(l, key) /\ InSeq(Bucket(subscribers, key), Listener(l)))
                => Bucket(subscribers', key)
                    = WithoutFirst(Bucket(subscribers, key), Listener(l))
SubmitStep ==
    Len(tasks') > Len(tasks)
        => \E key \in Keys :
                /\ Len(Submitted) = Len(Bucket(subscribers, key))
                /\ \A i \in DOMAIN Submitted :
                        Submitted[i].cb = Bucket(subscribers, key)[i]
Dispatched ==
    /\ Len(hist.pubs) = 1
    /\ hist.pubs[1].op = ops
    /\ hist.pubs[1].on = "running"
    /\ ~hist.raised
    /\ loop = << >> /\ tasks = << >>
    /\ \A key \in DOMAIN subscribers : key[2] => subscribers[key] = << >>

\* The registry part of C14: subscribe appends the callback to the bucket of
\* its key, duplicates included; unsubscribe takes out the first matching
\* entry only; the work submitted for a message is the bucket's callbacks in
\* bucket order.
BucketOrder == [][RegistryStep /\ SubmitStep]_vars

\* C14: buckets keep registration order with duplicates, and once a message
\* published on the running bus is dispatched (it was the last operation, no
\* subscribe or unsubscribe has raised, and no pattern is registered), every
\* listener was invoked once per registration it has left in the channel's
\* exact bucket.
C14_OncePerRegistration ==
    Dispatched
        => \A l \in Listeners :
            InvocationsOf(invocations, l)
                = Occurrences(Bucket(subscribers, <<hist.pubs[1].ch, FALSE>>),
                              Listener(l))

\* the adapters that keep subscription state outside the registry: redis at
\* the server, ipc in the routing table, aws at SNS
External == {"redis", "ipc", "aws"}

\* C15: on a running bus of an adapter with external subscription state, on
\* which no subscribe or unsubscribe has raised, the external subscription of
\* an exact channel exists exactly while the channel's bucket holds a callback.
C15_ExternalIffRegistered ==
    (adapter \in External /\ phase = "running" /\ ~hist.raised)
        => \A c \in Channels :
                <<c, FALSE>> \in ext <=> Bucket(subscribers, <<c, FALSE>>) # << >>

\* the states of the process-wide bus
StUnbound == ~core.bus /\ ~core.told
StClosed == ~core.bus /\ core.told
StRunning == core.bus /\ core.runner
StBoundOnly == core.bus /\ ~core.runner
ExactlyOne(S) == Cardinality({i \in DOMAIN S : S[i]}) = 1

\* the program's state apart from the history of calls
program == <<adapter, phase, subscribers, remote_fns, ext, subscriptions, loop,
             tasks, worker, queues, call, invocations, core, clients>>

\* shutdown() without a bound bus raises nothing and changes nothing, and a
\* shutdown() that has returned leaves a state in which the next one changes
\* nothing either
IdempotentStep ==
    /\ (CoreShutdown /\ ~core.bus) => (err' = "" /\ program' = program)
    /\ (CoreShutdown /\ ~core.runner) => program' = program
    /\ CoreJoin => (~core'.bus /\ ~core'.runner)

\* C16 as stated: shutdown() is idempotent, and the bus is always unbound,
\* running or closed.
C16_ThreeStates ==
    /\ [][IdempotentStep]_vars
    /\ [](ExactlyOne(<<StUnbound, StRunning, StClosed>>))

\* C16, amended: shutdown() is idempotent, and the bus is always unbound,
\* bound without a dispatch thread, running or closed.
C16_IdempotentShutdown ==
    /\ [][IdempotentStep]_vars
    /\ [](ExactlyOne(<<StUnbound, StBoundOnly, StRunning, StClosed>>))

\* init, shutdown, and a second shutdown that found the bus closed
C16_Witness ==
    /\ hist.calls = <<"init", "shutdown", "shutdown">>
    /\ StClosed
    /\ core.pc = "idle"

\* a step in which shutdown() returns: at once, or after the join
ShutdownReturns == (CoreShutdown /\ core'.pc = "idle") \/ CoreJoin

\* C17: when shutdown() returns on a bound bus, the bus was told to close, no
\* dispatch thread is left, the singleton is unbound, and the registry and
\* the exposed-function map are empty.
C17_ShutdownResets ==
    [][(ShutdownReturns /\ core.bus)
        => (/\ core'.told
            /\ ~core'.runner /\ core'.thread = "none"
            /\ ~core'.bus
            /\ core'.listeners = EmptyDict
            /\ core'.remote_fns = EmptyDict)
      ]_vars

\* the positions of the calls named in names
CallsAt(names) == {i \in DOMAIN hist.calls : hist.calls[i] \in names}

\* Listeners were added on exact channels while no bus was bound, init bound a
\* bus once, and the last call published a message on the running bus; the
\* message is dispatched.
DeferredThenPublished ==
    /\ \A i \in DOMAIN hist.calls :
            hist.calls[i] \in {"add_listener", "init", "init_only", "start", "publish"}
    /\ Cardinality(CallsAt({"init", "init_only"})) = 1
    /\ \A i \in CallsAt({"add_listener"}), j \in CallsAt({"init", "init_only"}) : i < j
    /\ \A r \in hist.ever : ~r[2][2]
    /\ Len(hist.pubs) = 1
    /\ hist.pubs[1].op = ops
    /\ hist.pubs[1].on = "running"
    /\ loop = << >> /\ tasks = << >>

\* C18: the listeners added before init are registered at the bus that init
\* binds, bucket by bucket in the order they were added, and each of them is
\* invoked for a message published on its channel after init.
C18_DeferredSubscribe ==
    DeferredThenPublished
        => /\ \A key \in DOMAIN core.listeners :
                    Bucket(subscribers, key) = core.listeners[key]
           /\ \A l \in Listeners :
                    InvocationsOf(invocations, l)
                        = Occurrences(Bucket(core.listeners,
                                             <<hist.pubs[1].ch, FALSE>>),
                                      Listener(l))

Inits == {"init", "init_only"}

\* init is called for the first time and returns
FirstInit ==
    /\ \E start_bus \in BOOLEAN : CoreInit(start_bus)
    /\ CallsAt(Inits) = {}
    /\ err' = ""

\* init is called after an earlier init and a later shutdown(), and nothing
\* was registered since that shutdown()
InitAfterShutdown ==
    /\ \E start_bus \in BOOLEAN : CoreInit(start_bus)
    /\ \E j \in CallsAt({"shutdown"}) :
            /\ \E i \in CallsAt(Inits) : i < j
            /\ \A k \in CallsAt({"add_listener", "expose"}) : k < j

\* C19: the first init registers every callback registered so far at the bus
\* as often as it was registered, and an init that follows a shutdown() hands
\* nothing of what was registered before that shutdown() to the new bus.
C19_AppliedOnce ==
    [][/\ FirstInit
            => \A key \in Keys, l \in Listeners :
                    Occurrences(Bucket(subscribers', key), Listener(l))
                        = Occurrences(Bucket(core.listeners, key), Listener(l))
       /\ InitAfterShutdown => subscribers' = EmptyDict
      ]_vars

\* A listener was added and removed again while no bus was bound, neither
\* call raising, and then init was called; only start and publish followed.
CancelledBeforeInit ==
    /\ Len(hist.calls) >= 3
    /\ hist.calls[1] = "add_listener"
    /\ hist.calls[2] = "remove_listener"
    /\ hist.calls[3] \in Inits
    /\ \A i \in 4..Len(hist.calls) : hist.calls[i] \in {"start", "publish"}
    /\ ~hist.raised

\* C20: a listener added and removed again while no bus was bound is not
\* registered at the bus that init binds, and neither work nor an invocation
\* ever comes about for it.
C20_CancelOut ==
    CancelledBeforeInit
        => \A l \in Listeners :
                /\ Registrations(core.listeners, Listener(l)) = 0
                /\ Registrations(subscribers, Listener(l)) = 0
                /\ TasksFor(tasks, Listener(l)) = 0
                /\ InvocationsOf(invocations, l) = 0

\* L1 was added on f and removed while unbound; init bound and started the
\* bus, and e1 was published on f on the running bus: nobody was invoked
C20_Witness ==
    /\ hist.calls = <<"add_listener", "remove_listener", "init", "publish">>
    /\ ~hist.raised
    /\ hist.ever = {<<"L1", <<"f", FALSE>>>>}
    /\ hist.pubs[1].ch = "f" /\ hist.pubs[1].on = "running"
    /\ loop = << >> /\ tasks = << >>
    /\ invocations = << >>

\* C21: publish without a bound bus raises nothing, returns None, and leaves
\* the program's state as it was - nothing is queued, submitted or invoked;
\* and whatever is invoked later, on a channel somebody was invoked for, a
\* message was published while a bus was bound.
C21_UnboundPublishNoOp ==
    /\ [][\A c \in Channels :
            (CorePublish("e1", c) /\ ~core.bus)
                => (/\ err' = ""
                    /\ Last(hist'.pubs).ret = << >>
                    /\ program' = program)
         ]_vars
    /\ [](\A i \in DOMAIN invocations :
            \E j \in DOMAIN hist.pubs :
                /\ hist.pubs[j].ch = invocations[i].ch
                /\ hist.pubs[j].on # "unbound")

\* L1 was added on f; e1 was published on f without a bus, then init bound
\* and started one, and e1 was published again on the running bus: L1 was
\* invoked once
C21_Witness ==
    /\ hist.calls = <<"add_listener", "publish", "init", "publish">>
    /\ hist.ever = {<<"L1", <<"f", FALSE>>>>}
    /\ hist.pubs[1].ch = "f" /\ hist.pubs[1].on = "unbound"
    /\ hist.pubs[2].ch = "f" /\ hist.pubs[2].on = "running"
    /\ loop = << >> /\ tasks = << >>
    /\ Len(invocations) = 1

\* C22: queue(name), stub(fn) and start() without a bound bus raise the
\* bus-not-set error (ValueError) in the call itself and leave the program's
\* state as it was.
C22_UnboundCallsFail ==
    [][(~core.bus /\ (CoreStart \/ CoreStub \/ \E name \in QueueNames : CoreQueue(name)))
            => (err' = "ValueError" /\ program' = program)]_vars

\* a listener was added, then queue, stub and start were called, all without
\* a bus: the last one raised and the listener is still waiting for a bus
C22_Witness ==
    /\ hist.calls = <<"add_listener", "queue", "stub", "start">>
    /\ err = "ValueError"
    /\ ~core.bus /\ ~core.runner
    /\ queues = EmptyDict
    /\ core.listeners # EmptyDict

\* Callbacks were subscribed through topic handles while no bus was bound
\* (through pattern handles only for a bus that has pattern subscriptions),
\* init bound a bus once, and the last call published on a handle while the
\* bus was running; the message is dispatched.
LazyTopicUsed ==
    /\ \A r \in hist.ever : r[2][2] => adapter \in {"simple", "redis"}
    /\ \A i \in DOMAIN hist.calls :
            hist.calls[i] \in {"topic.subscribe", "topic.publish", "init",
                               "init_only", "start"}
    /\ Cardinality(CallsAt(Inits)) = 1
    /\ \A i \in CallsAt({"topic.subscribe"}), j \in CallsAt(Inits) : i < j
    /\ hist.pubs # << >>
    /\ Last(hist.pubs).op = ops
    /\ Last(hist.pubs).on = "running"
    /\ \A j \in 1..(Len(hist.pubs) - 1) : hist.pubs[j].on = "unbound"
    /\ loop = << >> /\ tasks = << >>

\* C23: a publish on a topic handle without a bus returns None and changes
\* nothing; a subscribe on it is kept and, once init has bound a bus, is
\* registered at the bus under the handle's name and pattern flag; the
\* handle's publish after init is the bus's publish on the handle's name,
\* which reaches every callback subscribed on that name (counted where no
\* pattern subscription adds deliveries of its own).
C23_LazyTopic ==
    /\ \A j \in DOMAIN hist.pubs :
            hist.pubs[j].on = "unbound" => hist.pubs[j].ret = << >>
    /\ LazyTopicUsed
        => /\ \A key \in DOMAIN core.listeners :
                    Bucket(subscribers, key) = core.listeners[key]
           /\ (\A r \in hist.ever : ~r[2][2])
                => \A l \in Listeners :
                        InvocationsOf(invocations, l)
                            = Occurrences(Bucket(core.listeners,
                                                 <<Last(hist.pubs).ch, FALSE>>),
                                          Listener(l))

\* the same on the adapters whose subscribe works before run()
C23_OffAws == adapter # "aws" => C23_LazyTopic

C23_OffAwsWitness ==
    /\ LazyTopicUsed
    /\ adapter = "ipc"
    /\ Len(hist.pubs) = 2
    /\ Len(invocations) = 1

IsPrefix(g, p) == Len(g) <= Len(p) /\ SubSeq(p, 1, Len(g)) = g

\* C24: for every queue name, the items the successful gets have returned so
\* far, in the order they were taken, are the first of the items put under
\* that name, in the order they were put.
C24_Fifo == \A n \in QueueNames : IsPrefix(hist.gets[n], hist.puts[n])

\* every name stands for one queue
OneObjectPerName ==
    \A i \in DOMAIN queues, j \in DOMAIN queues : i[1] = j[1] => i = j

\* the same where the broker keeps the order and every name has one queue
FifoAtOneQueue == (adapter # "aws" /\ OneObjectPerName) => C24_Fifo

Handles == {clients.th[t].h : t \in Threads} \ {NoHandle}

\* handles of one name are one queue, and qsize is puts minus gets
SameNameSameFifo ==
    /\ \A h1 \in Handles, h2 \in Handles : h1[1] = h2[1] => h1 = h2
    /\ \A h \in Handles :
            qsize(h) = Len(hist.puts[h[1]]) - Len(hist.gets[h[1]])

\* a step that neither puts nor gets under a name leaves every queue of
\* that name as it was
OtherNamesKept ==
    \A id \in DOMAIN queues :
        (/\ hist'.puts[id[1]] = hist.puts[id[1]]
         /\ hist'.gets[id[1]] = hist.gets[id[1]])
            => Bucket(queues', id) = queues[id]

\* C25: two handles obtained for the same name are the same queue, so that
\* qsize through any handle is the number of puts minus the number of
\* successful gets under its name; and puts and gets under one name leave
\* the queues of other names untouched.
C25_SameNameSameFifo == []SameNameSameFifo /\ [][OtherNamesKept]_vars

\* the same while every name has one queue
SameFifoAtOneQueue == OneObjectPerName => SameNameSameFifo

ContentsKept ==
    \A id \in DOMAIN queues \cup DOMAIN queues' :
        Bucket(queues', id) = Bucket(queues, id)

\* a non-blocking get on an empty queue and a get whose timeout passes raise
\* Empty and leave the queues alone; a get that waits without timeout
\* raises nothing and ends only by taking an item
EmptyGetStep ==
    \A t \in Threads :
        /\ \A timeout \in Timeouts :
                (/\ QueueGet(t, FALSE, timeout)
                 /\ Bucket(queues, clients.th[t].h) = << >>)
                    => (err' = "Empty" /\ ContentsKept /\ UNCHANGED clients)
        /\ QueueTimeout(t)
                => (err' = "Empty" /\ ContentsKept
                    /\ clients.th[t].timeout # "None")
        /\ QueueGet(t, TRUE, "None") => err' = ""
        /\ (/\ clients.th[t].pc = "waiting"
            /\ clients.th[t].timeout = "None"
            /\ clients'.th[t].pc # "waiting")
                => (/\ err' = ""
                    /\ Len(hist'.gets[clients.th[t].h[1]])
                            = Len(hist.gets[clients.th[t].h[1]]) + 1)

\* a get that waits with a finite timeout on an empty queue can give up
WaitingCanExpire ==
    \A t \in Threads :
        (/\ clients.th[t].pc = "waiting"
         /\ clients.th[t].timeout # "None"
         /\ Bucket(queues, clients.th[t].h) = << >>)
            => ENABLED QueueTimeout(t)

\* C26: get on an empty queue raises Empty when it does not block and when
\* its finite timeout passes without an item, the queue contents staying as
\* they were; with block=True and timeout=None it raises nothing and waits
\* until an item is put.
C26_EmptyGet == [][EmptyGetStep]_vars /\ []WaitingCanExpire

\* the part of it that does not depend on how the timeout reaches the broker
EmptyGetRaises == [][EmptyGetStep]_vars

\* the step in which a callback is invoked and raises takes that one piece
\* of work from the dispatcher and leaves the rest of the submitted work, the
\* messages waiting in the loop, the registry and the bus as they were
ContainedStep ==
    (/\ Len(invocations') = Len(invocations) + 1
     /\ Last(invocations').raised)
        => /\ \E k \in DOMAIN tasks :
                /\ tasks[k].cb = Listener(Last(invocations').fn)
                /\ tasks' = [i \in 1..(Len(tasks) - 1) |->
                                IF i < k THEN tasks[i] ELSE tasks[i + 1]]
           /\ UNCHANGED <<loop, phase, subscribers, ext, subscriptions, worker>>

\* whatever was raised so far, submitted work can be run and a waiting
\* message can be dispatched
DispatchGoesOn ==
    /\ (tasks # << >> /\ worker = << >>) => ENABLED WorkerStep
    /\ loop # << >> => ENABLED LoopStep

\* C27: an exception raised by a subscriber callback (or by decoding the
\* message for it) ends that invocation only: the other callbacks submitted
\* for the same message are still run, and the loop goes on dispatching the
\* messages that follow.
C27_Contained == [][ContainedStep]_vars /\ []DispatchGoesOn

\* L2, which raises, and L1 are subscribed on a channel; two messages were
\* published on it and dispatched: L2 raised for the first, L1 was invoked
\* for it all the same, and both were invoked again for the second
C27_Witness ==
    /\ Len(hist.pubs) = 2
    /\ loop = << >> /\ tasks = << >>
    /\ Len(invocations) = 4
    /\ invocations[1].fn = "L2" /\ invocations[1].raised
    /\ invocations[2].fn = "L1" /\ ~invocations[2].raised
    /\ invocations[3].fn = "L2" /\ invocations[4].fn = "L1"

\* ---- The codec, applied to the values that are sent ----
CodecFrame ==
    UNCHANGED <<adapter, phase, subscribers, remote_fns, ext, subscriptions,
                loop, tasks, worker, queues, call, err, ops, invocations,
                freed, expected, hist, core, clients, listen, caller>>

\* json.dumps(v, cls=DeepDictEncoder)
Encode(v) ==
    /\ codec.pc = "idle"
    /\ codec' = [codec EXCEPT !.pc = "encoded", !.v = v, !.s = encode(v)]
    /\ CodecFrame

\* json.loads(s, cls=DeepDictDecoder) or DeepDictDecoder.for_type(cls)
Decode(mode) ==
    /\ codec.pc = "encoded"
    /\ codec.s.js # "TypeError"
    /\ codec' = [codec EXCEPT !.pc = "decoded", !.mode = mode,
                              !.out = decode(codec.s, Target(mode, codec.v))]
    /\ CodecFrame

NextCodec ==
    \/ \E v \in CodecValues : Encode(v)
    \/ \E mode \in Modes : Decode(mode)

SpecCodec == Init /\ [][NextCodec]_vars

\* C28: every value of the kinds the codec is for - primitives, lists, sets,
\* dicts, tuples, objects and combinations of them - can be encoded, and
\* decoding the text into the value's type, or without a target class as a
\* queue does, gives a value equal to the one encoded.
C28_RoundTrip ==
    /\ codec.pc = "encoded" => codec.s.js # "TypeError"
    /\ (codec.pc = "decoded" /\ codec.mode \in {"typeof", "untyped"})
            => codec.out = codec.v

\* the round trip of the values the codec does bring back: primitives, lists
\* of primitives, of lists, tuples of primitives, dicts with str keys and
\* such values, named tuples and objects with hinted attributes in every
\* mode; lists of tuples or of objects without a target class or into the
\* declared type
RoundTripOfPlain ==
    codec.pc = "decoded"
        => /\ codec.v \in Plain => codec.out = codec.v
           /\ (codec.v \in Tagged /\ codec.mode # "typeof") => codec.out = codec.v

\* what comes back otherwise: an int key as a str, a tuple inside a list of
\* primitives or a dict as a list, an object inside a tuple or a dict as a
\* dict or not at all; a set is not encoded in the first place
NoRoundTrip ==
    /\ (codec.pc = "encoded" /\ codec.v \in WithSets) => codec.s.js = "TypeError"
    /\ (codec.pc = "encoded" /\ codec.v \notin WithSets)
            => (codec.s.js = "TypeError" <=> codec.v = PyDict(<<<<PyStr("a"), Simple1>>>>))
    /\ (codec.pc = "decoded" /\ codec.v \in Mixed /\ codec.mode # "declared")
            => codec.out # codec.v
    /\ (codec.pc = "decoded" /\ codec.v \in Tagged /\ codec.mode = "typeof")
            => codec.out # codec.v

\* C29: a shutdown() that has closed the bus and waits for the runner
\* thread returns - whenever it was issued, also right after init and before
\* run() has set up its receive side, and with callbacks still in flight.
C29_ShutdownTerminates == (core.pc = "joining") ~> (core.pc = "idle")

\* nothing the waiting shutdown() depends on is left to happen: the runner
\* thread is inside run(), the event loop and the worker have nothing to do
ShutdownStuck ==
    /\ core.pc = "joining"
    /\ ~ENABLED CoreRun /\ ~ENABLED LoopStep /\ ~ENABLED WorkerStep
    /\ ~Joinable

\* where shutdown() does return: on the simple bus always; on the others
\* when the thread runs the bus that is bound and, on redis, run() had set
\* up its receive side before close() was called
StuckOnlyThere ==
    ShutdownStuck =>
        /\ adapter # "simple"
        /\ \/ core.thread = "foreign"
           \/ adapter = "redis" /\ phase = "running"

\* a worker step in which the skeleton of task k drops its response
DiscardedStep(k) == SkeletonStep(k) /\ UNCHANGED <<queues, worker>>

\* the invocation that sent the request of task k has published it and has
\* not finished: it is about to acquire its reply queue or waits on it
NotGivenUp(k) ==
    /\ tasks[k].event.response_channel = call.id
    /\ call.pc \in {"acquire", "wait"}

\* C30: a skeleton drops its response only when the invocation that sent the
\* request has finalized its reply queue; the response to a request whose
\* invocation has not given up is put on the reply queue, wherever the stub
\* stands between its publish, the acquisition of the queue and its wait.
C30_DiscardOnlyAfterFinalize ==
    [][\A k \in 1..Len(tasks) :
            /\ (SkeletonStep(k) /\ NotGivenUp(k)) => Enqueued(k)
            /\ DiscardedStep(k) => ~NotGivenUp(k)]_vars

\* what the skeletons do: a response is dropped only on IPC and only while
\* the reply queue does not exist, which is after the invocation finished or
\* before its first get has opened the queue; the response to an invocation
\* that waits on its queue is put
DiscardOnlyWithoutQueue ==
    [][\A k \in 1..Len(tasks) :
            /\ DiscardedStep(k) =>
                    /\ adapter = "ipc"
                    /\ tasks[k].event.response_channel \notin DOMAIN queues
                    /\ NotGivenUp(k) => call.pc = "acquire"
            /\ (SkeletonStep(k) /\ NotGivenUp(k) /\ call.pc = "wait") => Enqueued(k)]_vars

\* an unsubscribe from exact channel c that returns and leaves callbacks in
\* the channel's bucket leaves the external subscription of c as it was
OthersKeepSubscription ==
    \A l \in Listeners, c \in Channels :
        (/\ Unsubscribe(l, <<c, FALSE>>)
         /\ err' = ""
         /\ Bucket(subscribers', <<c, FALSE>>) # << >>)
            => (<<c, FALSE>> \in ext' <=> <<c, FALSE>> \in ext)

\* a message published on the running bus as the last operation, after
\* registry calls none of which raised, has been dispatched, and every
\* listener still in the channel's exact bucket was invoked with it
RemainingReceive ==
    Dispatched
        => \A l \in Listeners :
            InSeq(Bucket(subscribers, <<hist.pubs[1].ch, FALSE>>), Listener(l))
                => \E i \in DOMAIN invocations :
                        /\ invocations[i].fn = l
                        /\ invocations[i].ch = hist.pubs[1].ch

\* C31: when one of several callbacks of an exact channel unsubscribes, the
\* channel's routing entry or external subscription stays, and the callbacks
\* that remain receive what is published on the channel afterwards, on every
\* adapter.
C31_KeptUntilLast == [][OthersKeepSubscription]_vars /\ []RemainingReceive

\* the same on the adapters that look at the bucket before they drop the
\* external subscription (redis) or have none (simple)
KeptUntilLastOffIpcAws ==
    /\ [][(adapter \in {"simple", "redis"}) => OthersKeepSubscription]_vars
    /\ [](adapter \in {"simple", "redis"} => RemainingReceive)

\* every key of the registry has a callback in its bucket
NoEmptyBucket == \A key \in DOMAIN subscribers : subscribers[key] # << >>

\* a publish, a step of the dispatch loop or of a worker leaves the registry
\* as it is
RegistryKept ==
    ((\E v \in Values, c \in Channels : Publish(v, c)) \/ LoopStep \/ WorkerStep)
        => subscribers' = subscribers

\* an unsubscribe that takes the last callback out of a bucket removes the
\* bucket's key
LastRemovesBucket ==
    \A l \in Listeners, key \in Keys :
        (Unsubscribe(l, key) /\ Bucket(subscribers, key) = <<Listener(l)>>)
            => key \notin DOMAIN subscribers'

\* C32: the registry has a key exactly while a callback is registered under
\* it: the unsubscribe of the last callback removes the bucket, and neither
\* publish nor the dispatch of a message adds a key or changes the registry.
C32_KeyIffRegistered ==
    /\ []NoEmptyBucket
    /\ [][RegistryKept /\ LastRemovesBucket]_vars

\* the same where it holds: on redis and ipc altogether, and the unsubscribe
\* part on every adapter
KeyIffRegisteredOffSimpleAws ==
    /\ [](adapter \in {"redis", "ipc"} => NoEmptyBucket)
    /\ [][((adapter \in {"redis", "ipc"}) => RegistryKept) /\ LastRemovesBucket]_vars

\* the positions in the invocations at which listener l was called with v
CalledWith(l, v) ==
    {i \in DOMAIN invocations : invocations[i].fn = l /\ invocations[i].v = v}

\* C33: on the in-process adapter, when m1 and then m2 were published on a
\* channel (each of them once), every subscriber's invocation with m1 comes
\* before its invocations with m2.
C33_SimpleFifo ==
    adapter = "simple"
        => \A p, q \in DOMAIN hist.pubs :
            (/\ p < q
             /\ hist.pubs[p].ch = hist.pubs[q].ch
             /\ \A r \in DOMAIN hist.pubs :
                    hist.pubs[r].v \in {hist.pubs[p].v, hist.pubs[q].v} => r \in {p, q}
             /\ hist.pubs[p].v # hist.pubs[q].v)
                => \A l \in Listeners :
                    \A i \in CalledWith(l, hist.pubs[p].v),
                       j \in CalledWith(l, hist.pubs[q].v) : i < j

\* hello1 and hello2 were published on f of the running in-process bus while
\* L1 and L2 were subscribed, and all four invocations have happened
C33_Witness ==
    /\ adapter = "simple"
    /\ Len(hist.pubs) = 2
    /\ hist.pubs[1].v = "hello1" /\ hist.pubs[2].v = "hello2"
    /\ tasks = << >>
    /\ Len(invocations) = 4
    /\ CalledWith("L1", "hello1") # {} /\ CalledWith("L1", "hello2") # {}
    /\ CalledWith("L2", "hello1") # {} /\ CalledWith("L2", "hello2") # {}

\* a message was published on the running bus as the last operation, after
\* subscribes and unsubscribes none of which raised, and l is the subscriber
\* of its channel
PublishedToOnly(l) ==
    /\ phase = "running" /\ ~hist.raised
    /\ Len(hist.pubs) = 1
    /\ hist.pubs[1].op = ops /\ hist.pubs[1].on = "running"
    /\ Bucket(subscribers, <<hist.pubs[1].ch, FALSE>>) = <<Listener(l)>>

\* C34: on a running bus on which one callback at a time is subscribed to a
\* channel - the subscriber unsubscribes, later a callback subscribes again -
\* a message published after the last subscribe is delivered to the
\* subscriber: the dispatch loop can always take what was sent to it, also
\* after a period without subscriptions, and once it has, the subscriber was
\* invoked with the message.
C34_ResubscribeDelivers ==
    /\ loop # << >> => (ENABLED ListenLoopStep \/ ENABLED ListenWake)
    /\ \A l \in Listeners :
            (PublishedToOnly(l) /\ loop = << >> /\ tasks = << >>)
                => /\ Len(invocations) = 1
                   /\ invocations[1].fn = l
                   /\ invocations[1].v = hist.pubs[1].v

\* on redis: L1 subscribed and unsubscribed, the dispatch loop came back from
\* pubsub.listen() and waited, L2 subscribed, and the message published then
\* reached L2
C34_Witness ==
    /\ adapter = "redis"
    /\ listen = [pc |-> "listening", idled |-> TRUE]
    /\ hist.ever = {<<"L1", <<"f", FALSE>>>>, <<"L2", <<"f", FALSE>>>>}
    /\ PublishedToOnly("L2")
    /\ ops = 4
    /\ loop = << >> /\ tasks = << >>
    /\ Len(invocations) = 1 /\ invocations[1].fn = "L2"

\* a finished single-result call with positional arguments only, answered by
\* the one function exposed on its channel (the expose was the only operation
\* on the registry, so the function that answered is the one exposed when the
\* request was published)
AnsweredCall ==
    /\ Done /\ ~call.multi /\ call.solo0 /\ call.from = <<"queue">> /\ ~call.kw
    /\ ops = 1

\* the call raised RemoteInvocationError for the TypeError of a function that
\* was not run
RefusedArguments ==
    /\ Outcome.kind = "raise"
    /\ Outcome.exc = "RemoteInvocationError"
    /\ Outcome.vals[1].items[1] = "TypeError"

\* C35: a stub called with more positional arguments than the exposed
\* function has parameters raises RemoteInvocationError, and the function is
\* not run, however many parameters it has.
C35_TooManyArguments ==
    (AnsweredCall /\ Len(call.args) > Len(SpecArgs(call.fn0)))
        => RefusedArguments

\* the same for the functions without parameters, which the skeleton checks
TooManyForNoParameters ==
    (AnsweredCall /\ call.args # << >> /\ SpecArgs(call.fn0) = << >>)
        => RefusedArguments

\* a publish on the bound in-process bus returns the number of callbacks it
\* has submitted to the dispatcher
CountsSubmitted ==
    \A c \in Channels :
        (CorePublish("e1", c) /\ core.bus /\ adapter = "simple")
            => Last(hist'.pubs).ret = <<Len(tasks') - Len(tasks)>>

\* C36: on the in-process adapter publish returns the number of callbacks
\* that were submitted to the dispatcher for the message, whenever it is
\* called: before the dispatch thread has created the dispatcher, while it
\* runs, and after close has shut it down.
C36_CountIsSubmitted == [][CountsSubmitted]_vars

\* the same while the dispatcher exists and takes work
CountIsSubmittedWhileRunning == [][phase = "running" => CountsSubmitted]_vars

\* C37: a channel is in the exposed-function map exactly when one skeleton
\* is registered in the channel's exact bucket of the bus, also after an
\* expose whose _subscribe raised and after unsubscribes on the channel.
C37_ExposedIffSkeleton ==
    \A c \in ExposeChannels \cup Channels :
        /\ c \in DOMAIN remote_fns
                <=> SkeletonCount(Bucket(subscribers, <<c, FALSE>>)) = 1
        /\ c \in DOMAIN remote_fns
                => InSeq(Bucket(subscribers, <<c, FALSE>>), remote_fns[c])

\* the same on the module state of pymq.core, where expose appends
\* _rpc_wrapper and enters the function together and shutdown clears both
CoreExposedIffWrapper ==
    \A c \in ExposeChannels \cup Channels :
        c \in DOMAIN core.remote_fns
            <=> SkeletonCount(Bucket(core.listeners, <<c, FALSE>>)) = 1

\* on aws, before run(): the expose of void_function on f raised in
\* _subscribe; the function is in the map and its skeleton in the bucket
C37_Witness ==
    /\ adapter = "aws" /\ phase = "created"
    /\ err = "AttributeError"
    /\ ops = 1
    /\ DOMAIN remote_fns = {"f"}
    /\ subscribers[<<"f", FALSE>>] = <<Skeleton("void_function", "f")>>

\* C38: whenever a bus is bound and there is a runner thread, the thread was
\* started for the bound bus and runs (or is about to run) its run(),
\* whatever init, start and shutdown calls were made, a second init while
\* the first bus runs included.  (_runner is the only dispatch thread:
\* start creates one only while _runner is None.)
C38_ThreadRunsBound ==
    (core.bus /\ core.thread # "none") => core.thread \in {"started", "running"}

\* the thread runs another bus only after an init that found a runner thread
ForeignOnlyByReinit ==
    [][(core'.thread = "foreign" /\ core.thread # "foreign")
            => /\ core.runner
               /\ Last(hist'.calls) \in {"init", "init_only"}
               /\ Len(hist'.calls) = Len(hist.calls) + 1]_vars

\* C39: a publish or queue of pymq.core that runs beside shutdown() ends by
\* delegating to the bound bus or as it does without a bus (publish returns
\* None, queue raises the bus-not-set ValueError); it never calls through
\* the singleton after shutdown has cleared it.
C39_NeverUsesCleared ==
    /\ caller.out \in {"", "delegated", "None", "ValueError"}
    /\ caller.out = "ValueError" => caller.op = "queue"
    /\ caller.out = "None" => caller.op = "publish"

\* a call fails on the cleared singleton only when a shutdown() was issued
\* and its join returned between the test and the use
ClearedOnlyByShutdown ==
    [][caller'.out = "AttributeError" /\ caller.pc = "tested"
            => /\ ~core.bus
               /\ \E i \in 1..Len(hist.calls) : hist.calls[i] = "shutdown"]_vars

\* shutdown() returns: _runner.join() has returned and the module state is
\* reset
ShutdownReturnsNow == core.pc = "joining" /\ core'.pc = "idle"

\* shutdown() has returned and no bus was bound since
ShutDown == ~core.bus /\ core.told

\* a worker starts a callback invocation
InvocationStarts == Len(tasks') < Len(tasks)

\* C40: when shutdown() returns, every callback invocation submitted to the
\* dispatcher has completed, and after it has returned no callback
\* invocation is started.
C40_QuiescentAfterShutdown ==
    [][/\ ShutdownReturnsNow => tasks = << >> /\ worker = << >>
       /\ ShutDown => ~InvocationStarts]_vars

\* the same where close() (ipc: the loop's cleanup) shut the dispatcher
\* down: everywhere but on a simple bus whose close() came before its run()
QuiescentWhereDispatcherShutDown ==
    [][phase = "closed"
            => /\ ShutdownReturnsNow => tasks = << >> /\ worker = << >>
               /\ ShutDown => ~InvocationStarts]_vars
====
